---- MODULE Spec2Model ----
(***************************************************************************)
(* TLA+ model of the ukrdc-sqla declarative schema (renalreg/ukrdc-sqla):  *)
(* the field alias layer (synonym), the coded-reference relationships to   *)
(* the Code catalog, the cascade rules of the PatientRecord aggregate and  *)
(* the v1 compatibility test.  The class tables below are transcribed from *)
(* the class bodies; the operations are the ORM operations those           *)
(* declarations configure.                                                 *)
(***************************************************************************)
EXTENDS Integers, Sequences, FiniteSets, TLC

VARIABLES
  mapped,      \* schema import: per module, how many class statements have run
  cpc,         \* compatibility test: "loop" | "AssertionError" | "passed"
  ci,          \* compatibility test: index into COMP of the class being checked
  rot,         \* compatibility test: where the iteration of the key set starts
  kj,          \* compatibility test: number of keys of the class already checked
  failure,     \* compatibility test: the assertion message, <<>> while none
  ent,         \* alias layer: the class of the two entity instances
  focus,       \* alias layer: <<first name, second name>> being exercised
  objs,        \* alias layer: instance id -> instance __dict__
  last,        \* alias layer: the last setattr, <<id, name, value>>
  scope,       \* registry database: the tables in use, from the aggregate root down
  db,          \* registry database: the set of rows
  dbLast,      \* registry database: the last session operation
  catalog,     \* Code catalog: the rows of code_list
  catLast      \* Code catalog: the last operation and its outcome

vars == <<mapped, cpc, ci, rot, kj, failure, ent, focus, objs, last, scope, db,
          dbLast,
          catalog, catLast>>
importVars == <<mapped>>
compatVars == <<cpc, ci, rot, kj, failure>>
aliasVars == <<ent, focus, objs, last>>
dbVars == <<scope, db, dbLast>>
catVars == <<catalog, catLast>>

\* the Python None
None == "None"

Range(s) == {s[i] : i \in DOMAIN s}

\* ----------------------------------------------------------------------
\* Declarative classes of src/ukrdc_sqla/ukrdc.py
\* columns: <<attribute key, column name>>; synonyms: <<alias, target name>>;
\* proxies: <<attribute key, relationship, remote attribute>>;
\* foreign_keys: <<attribute key, referenced table, referenced column>>
\* ----------------------------------------------------------------------
\* a faulty declaration: repository_update_date declared on top of the synonym
\* repository_creation_date instead of the column repositoryupdatedate
ukrdc_PatientRecord_synonyms_chained ==
  << <<"id", "pid">>, <<"extract_time", "extracttime">>,
     <<"repository_creation_date", "repositorycreationdate">>,
     <<"repository_update_date", "repository_creation_date">> >>
ukrdc_PatientRecord_synonyms ==
  << <<"id", "pid">>, <<"extract_time", "extracttime">>,
     <<"repository_creation_date", "repositorycreationdate">>,
     <<"repository_update_date", "repositoryupdatedate">> >>
\* a faulty declaration: result_items declared without cascade
ukrdc_LabOrder_relationships_nocascade ==
  << [key |-> "result_items", argument |-> "ResultItem", cascade |-> {}, backref |-> "", back_populates |-> "order", uselist |-> "default", viewonly |-> FALSE,
      foreign_keys |-> "", secondary |-> "", primaryjoin |-> <<>>] >>
ukrdc_LabOrder_relationships ==
  << [key |-> "result_items", argument |-> "ResultItem", cascade |-> {"all", "delete-orphan"}, backref |-> "", back_populates |-> "order", uselist |-> "default", viewonly |-> FALSE,
      foreign_keys |-> "", secondary |-> "", primaryjoin |-> <<>>] >>
\* a faulty declaration: a result item keyed to two lab orders
ukrdc_ResultItem_twoorders ==
  [name |-> "ResultItem", tablename |-> "resultitem",
   columns |-> << <<"id", "id">>, <<"order_id", "orderid">>, <<"creation_date", "creation_date">>,
      <<"resulttype", "resulttype">>, <<"serviceidcode", "serviceidcode">>,
      <<"serviceidcodestd", "serviceidcodestd">>, <<"serviceiddesc", "serviceiddesc">>,
      <<"subid", "subid">>, <<"resultvalue", "resultvalue">>,
      <<"resultvalueunits", "resultvalueunits">>, <<"referencerange", "referencerange">>,
      <<"interpretationcodes", "interpretationcodes">>, <<"status", "status">>,
      <<"observationtime", "observationtime">>, <<"commenttext", "commenttext">>,
      <<"referencecomment", "referencecomment">>, <<"prepost", "prepost">>,
      <<"enteredon", "enteredon">>, <<"updatedon", "updatedon">>, <<"actioncode", "actioncode">>,
      <<"externalid", "externalid">>, <<"update_date", "update_date">> >>,
   primary_key |-> {"id"},
   foreign_keys |-> {<<"order_id", "laborder", "id">>, <<"resulttype", "laborder", "id">>},
   not_nullable |-> { "creation_date" },
   synonyms |-> << <<"result_type", "resulttype">>, <<"entered_on", "enteredon">>, <<"pre_post", "prepost">>,
         <<"service_id", "serviceidcode">>, <<"service_id_std", "serviceidcodestd">>,
         <<"service_id_description", "serviceiddesc">>, <<"sub_id", "subid">>,
         <<"value", "resultvalue">>, <<"value_units", "resultvalueunits">>,
         <<"reference_range", "referencerange">>, <<"interpretation_codes", "interpretationcodes">>,
         <<"observation_time", "observationtime">>, <<"comments", "commenttext">>,
         <<"reference_comment", "referencecomment">> >>,
   relationships |-> << [key |-> "order", argument |-> "LabOrder", cascade |-> {}, backref |-> "", back_populates |-> "result_items", uselist |-> "default", viewonly |-> FALSE,
      foreign_keys |-> "", secondary |-> "", primaryjoin |-> <<>>] >>,
   proxies |-> << <<"pid", "order", "pid">> >>,
   properties |-> <<>>,
   other |-> {},
   private |-> {"__tablename__"}]
\* a faulty declaration: pid reads the id of the lab order
ukrdc_ResultItem_orderidproxy ==
  [name |-> "ResultItem", tablename |-> "resultitem",
   columns |-> << <<"id", "id">>, <<"order_id", "orderid">>, <<"creation_date", "creation_date">>,
      <<"resulttype", "resulttype">>, <<"serviceidcode", "serviceidcode">>,
      <<"serviceidcodestd", "serviceidcodestd">>, <<"serviceiddesc", "serviceiddesc">>,
      <<"subid", "subid">>, <<"resultvalue", "resultvalue">>,
      <<"resultvalueunits", "resultvalueunits">>, <<"referencerange", "referencerange">>,
      <<"interpretationcodes", "interpretationcodes">>, <<"status", "status">>,
      <<"observationtime", "observationtime">>, <<"commenttext", "commenttext">>,
      <<"referencecomment", "referencecomment">>, <<"prepost", "prepost">>,
      <<"enteredon", "enteredon">>, <<"updatedon", "updatedon">>, <<"actioncode", "actioncode">>,
      <<"externalid", "externalid">>, <<"update_date", "update_date">> >>,
   primary_key |-> {"id"},
   foreign_keys |-> {<<"order_id", "laborder", "id">>},
   not_nullable |-> { "creation_date" },
   synonyms |-> << <<"result_type", "resulttype">>, <<"entered_on", "enteredon">>, <<"pre_post", "prepost">>,
         <<"service_id", "serviceidcode">>, <<"service_id_std", "serviceidcodestd">>,
         <<"service_id_description", "serviceiddesc">>, <<"sub_id", "subid">>,
         <<"value", "resultvalue">>, <<"value_units", "resultvalueunits">>,
         <<"reference_range", "referencerange">>, <<"interpretation_codes", "interpretationcodes">>,
         <<"observation_time", "observationtime">>, <<"comments", "commenttext">>,
         <<"reference_comment", "referencecomment">> >>,
   relationships |-> << [key |-> "order", argument |-> "LabOrder", cascade |-> {}, backref |-> "", back_populates |-> "result_items", uselist |-> "default", viewonly |-> FALSE,
      foreign_keys |-> "", secondary |-> "", primaryjoin |-> <<>>] >>,
   proxies |-> << <<"pid", "order", "id">> >>,
   properties |-> <<>>,
   other |-> {},
   private |-> {"__tablename__"}]
ukrdc_ResultItem ==
  [name |-> "ResultItem", tablename |-> "resultitem",
   columns |-> << <<"id", "id">>, <<"order_id", "orderid">>, <<"creation_date", "creation_date">>,
      <<"resulttype", "resulttype">>, <<"serviceidcode", "serviceidcode">>,
      <<"serviceidcodestd", "serviceidcodestd">>, <<"serviceiddesc", "serviceiddesc">>,
      <<"subid", "subid">>, <<"resultvalue", "resultvalue">>,
      <<"resultvalueunits", "resultvalueunits">>, <<"referencerange", "referencerange">>,
      <<"interpretationcodes", "interpretationcodes">>, <<"status", "status">>,
      <<"observationtime", "observationtime">>, <<"commenttext", "commenttext">>,
      <<"referencecomment", "referencecomment">>, <<"prepost", "prepost">>,
      <<"enteredon", "enteredon">>, <<"updatedon", "updatedon">>, <<"actioncode", "actioncode">>,
      <<"externalid", "externalid">>, <<"update_date", "update_date">> >>,
   primary_key |-> {"id"},
   foreign_keys |-> {<<"order_id", "laborder", "id">>},
   not_nullable |-> { "creation_date" },
   synonyms |-> << <<"result_type", "resulttype">>, <<"entered_on", "enteredon">>, <<"pre_post", "prepost">>,
         <<"service_id", "serviceidcode">>, <<"service_id_std", "serviceidcodestd">>,
         <<"service_id_description", "serviceiddesc">>, <<"sub_id", "subid">>,
         <<"value", "resultvalue">>, <<"value_units", "resultvalueunits">>,
         <<"reference_range", "referencerange">>, <<"interpretation_codes", "interpretationcodes">>,
         <<"observation_time", "observationtime">>, <<"comments", "commenttext">>,
         <<"reference_comment", "referencecomment">> >>,
   relationships |-> << [key |-> "order", argument |-> "LabOrder", cascade |-> {}, backref |-> "", back_populates |-> "result_items", uselist |-> "default", viewonly |-> FALSE,
      foreign_keys |-> "", secondary |-> "", primaryjoin |-> <<>>] >>,
   proxies |-> << <<"pid", "order", "pid">> >>,
   properties |-> <<>>,
   other |-> {},
   private |-> {"__tablename__"}]
\* a faulty declaration: rrtstatus_info joined on the coding standard PV_TPSTATUS
ukrdc_PVData_swappedstandard ==
  [name |-> "PVData", tablename |-> "pvdata",
   columns |-> << <<"id", "id">>, <<"creation_date", "creation_date">>, <<"update_date", "update_date">>,
      <<"diagnosisdate", "diagnosisdate">>, <<"bloodgroup", "bloodgroup">>,
      <<"rrtstatus", "rrtstatus">>, <<"tpstatus", "tpstatus">> >>,
   primary_key |-> {"id"},
   foreign_keys |-> {<<"id", "patientrecord", "pid">>},
   not_nullable |-> { "creation_date" },
   synonyms |-> <<>>,
   relationships |-> << [key |-> "rrtstatus_info", argument |-> "Code", cascade |-> {}, backref |-> "", back_populates |-> "", uselist |-> "default", viewonly |-> FALSE,
      foreign_keys |-> "", secondary |-> "", primaryjoin |-> << <<"literal", "PV_TPSTATUS", "coding_standard">>, <<"foreign", "rrtstatus", "code">> >>],
     [key |-> "tpstatus_info", argument |-> "Code", cascade |-> {}, backref |-> "", back_populates |-> "", uselist |-> "default", viewonly |-> FALSE,
      foreign_keys |-> "", secondary |-> "", primaryjoin |-> << <<"literal", "PV_TPSTATUS", "coding_standard">>, <<"foreign", "tpstatus", "code">> >>] >>,
   proxies |-> << <<"rrtstatus_desc", "rrtstatus_info", "description">>,
      <<"tpstatus_desc", "tpstatus_info", "description">> >>,
   properties |-> <<>>,
   other |-> {},
   private |-> {"__tablename__", "__str__"}]
ukrdc_PVData ==
  [name |-> "PVData", tablename |-> "pvdata",
   columns |-> << <<"id", "id">>, <<"creation_date", "creation_date">>, <<"update_date", "update_date">>,
      <<"diagnosisdate", "diagnosisdate">>, <<"bloodgroup", "bloodgroup">>,
      <<"rrtstatus", "rrtstatus">>, <<"tpstatus", "tpstatus">> >>,
   primary_key |-> {"id"},
   foreign_keys |-> {<<"id", "patientrecord", "pid">>},
   not_nullable |-> { "creation_date" },
   synonyms |-> <<>>,
   relationships |-> << [key |-> "rrtstatus_info", argument |-> "Code", cascade |-> {}, backref |-> "", back_populates |-> "", uselist |-> "default", viewonly |-> FALSE,
      foreign_keys |-> "", secondary |-> "", primaryjoin |-> << <<"literal", "PV_RRTSTATUS", "coding_standard">>, <<"foreign", "rrtstatus", "code">> >>],
     [key |-> "tpstatus_info", argument |-> "Code", cascade |-> {}, backref |-> "", back_populates |-> "", uselist |-> "default", viewonly |-> FALSE,
      foreign_keys |-> "", secondary |-> "", primaryjoin |-> << <<"literal", "PV_TPSTATUS", "coding_standard">>, <<"foreign", "tpstatus", "code">> >>] >>,
   proxies |-> << <<"rrtstatus_desc", "rrtstatus_info", "description">>,
      <<"tpstatus_desc", "tpstatus_info", "description">> >>,
   properties |-> <<>>,
   other |-> {},
   private |-> {"__tablename__", "__str__"}]
\* a faulty declaration: discharge_reason_code_item joined on the code alone
ukrdc_Treatment_dischargecodeonly ==
  [name |-> "Treatment", tablename |-> "treatment",
   columns |-> << <<"id", "id">>, <<"pid", "pid">>, <<"creation_date", "creation_date">>, <<"idx", "idx">>,
      <<"encounternumber", "encounternumber">>, <<"encountertype", "encountertype">>,
      <<"fromtime", "fromtime">>, <<"totime", "totime">>,
      <<"admittingcliniciancode", "admittingcliniciancode">>,
      <<"admittingcliniciancodestd", "admittingcliniciancodestd">>,
      <<"admittingcliniciandesc", "admittingcliniciandesc">>,
      <<"admitreasoncode", "admitreasoncode">>, <<"admitreasoncodestd", "admitreasoncodestd">>,
      <<"admitreasondesc", "admitreasondesc">>, <<"admissionsourcecode", "admissionsourcecode">>,
      <<"admissionsourcecodestd", "admissionsourcecodestd">>,
      <<"admissionsourcedesc", "admissionsourcedesc">>,
      <<"dischargereasoncode", "dischargereasoncode">>,
      <<"dischargereasoncodestd", "dischargereasoncodestd">>,
      <<"dischargereasondesc", "dischargereasondesc">>,
      <<"dischargelocationcode", "dischargelocationcode">>,
      <<"dischargelocationcodestd", "dischargelocationcodestd">>,
      <<"dischargelocationdesc", "dischargelocationdesc">>,
      <<"healthcarefacilitycode", "healthcarefacilitycode">>,
      <<"healthcarefacilitycodestd", "healthcarefacilitycodestd">>,
      <<"healthcarefacilitydesc", "healthcarefacilitydesc">>,
      <<"enteredatcode", "enteredatcode">>, <<"enteredatcodestd", "enteredatcodestd">>,
      <<"enteredatdesc", "enteredatdesc">>, <<"visitdescription", "visitdescription">>,
      <<"updatedon", "updatedon">>, <<"actioncode", "actioncode">>,
      <<"externalid", "externalid">>, <<"hdp01", "hdp01">>, <<"hdp02", "hdp02">>,
      <<"hdp03", "hdp03">>, <<"hdp04", "hdp04">>, <<"qbl05", "qbl05">>, <<"qbl06", "qbl06">>,
      <<"qbl07", "qbl07">>, <<"erf61", "erf61">>, <<"pat35", "pat35">>,
      <<"update_date", "update_date">> >>,
   primary_key |-> {"id"},
   foreign_keys |-> {<<"pid", "patientrecord", "pid">>},
   not_nullable |-> { "creation_date" },
   synonyms |-> << <<"encounter_number", "encounternumber">>, <<"encounter_type", "encountertype">>,
         <<"from_time", "fromtime">>, <<"to_time", "totime">>,
         <<"admitting_clinician_code", "admittingcliniciancode">>,
         <<"admitting_clinician_code_std", "admittingcliniciancodestd">>,
         <<"admitting_clinician_desc", "admittingcliniciandesc">>,
         <<"admission_source_code", "admissionsourcecode">>,
         <<"admission_source_code_std", "admissionsourcecodestd">>,
         <<"admission_source_desc", "admissionsourcedesc">>,
         <<"admit_reason_code", "admitreasoncode">>,
         <<"admit_reason_code_std", "admitreasoncodestd">>,
         <<"discharge_reason_code", "dischargereasoncode">>,
         <<"discharge_reason_code_std", "dischargereasoncodestd">>,
         <<"discharge_location_code", "dischargelocationcode">>,
         <<"discharge_location_code_std", "dischargelocationcodestd">>,
         <<"discharge_location_desc", "dischargelocationdesc">>,
         <<"health_care_facility_code", "healthcarefacilitycode">>,
         <<"health_care_facility_code_std", "healthcarefacilitycodestd">>,
         <<"health_care_facility_desc", "healthcarefacilitydesc">>,
         <<"entered_at_code", "enteredatcode">>, <<"visit_description", "visitdescription">>,
         <<"updated_on", "updatedon">>, <<"action_code", "actioncode">>,
         <<"external_id", "externalid">> >>,
   relationships |-> << [key |-> "admit_reason_code_item", argument |-> "Code", cascade |-> {}, backref |-> "", back_populates |-> "", uselist |-> "default", viewonly |-> FALSE,
      foreign_keys |-> "", secondary |-> "", primaryjoin |-> << <<"foreign", "admit_reason_code_std", "coding_standard">>, <<"foreign", "admit_reason_code", "code">> >>],
     [key |-> "discharge_reason_code_item", argument |-> "Code", cascade |-> {}, backref |-> "", back_populates |-> "", uselist |-> "default", viewonly |-> FALSE,
      foreign_keys |-> "", secondary |-> "", primaryjoin |-> << <<"foreign", "discharge_reason_code", "code">> >>] >>,
   proxies |-> << <<"admit_reason_desc", "admit_reason_code_item", "description">>,
      <<"discharge_reason_desc", "discharge_reason_code_item", "description">> >>,
   properties |-> <<>>,
   other |-> {},
   private |-> {"__tablename__"}]
\* a faulty declaration: admit_reason_code_item joined on the code alone
ukrdc_Treatment_admitcodeonly ==
  [name |-> "Treatment", tablename |-> "treatment",
   columns |-> << <<"id", "id">>, <<"pid", "pid">>, <<"creation_date", "creation_date">>, <<"idx", "idx">>,
      <<"encounternumber", "encounternumber">>, <<"encountertype", "encountertype">>,
      <<"fromtime", "fromtime">>, <<"totime", "totime">>,
      <<"admittingcliniciancode", "admittingcliniciancode">>,
      <<"admittingcliniciancodestd", "admittingcliniciancodestd">>,
      <<"admittingcliniciandesc", "admittingcliniciandesc">>,
      <<"admitreasoncode", "admitreasoncode">>, <<"admitreasoncodestd", "admitreasoncodestd">>,
      <<"admitreasondesc", "admitreasondesc">>, <<"admissionsourcecode", "admissionsourcecode">>,
      <<"admissionsourcecodestd", "admissionsourcecodestd">>,
      <<"admissionsourcedesc", "admissionsourcedesc">>,
      <<"dischargereasoncode", "dischargereasoncode">>,
      <<"dischargereasoncodestd", "dischargereasoncodestd">>,
      <<"dischargereasondesc", "dischargereasondesc">>,
      <<"dischargelocationcode", "dischargelocationcode">>,
      <<"dischargelocationcodestd", "dischargelocationcodestd">>,
      <<"dischargelocationdesc", "dischargelocationdesc">>,
      <<"healthcarefacilitycode", "healthcarefacilitycode">>,
      <<"healthcarefacilitycodestd", "healthcarefacilitycodestd">>,
      <<"healthcarefacilitydesc", "healthcarefacilitydesc">>,
      <<"enteredatcode", "enteredatcode">>, <<"enteredatcodestd", "enteredatcodestd">>,
      <<"enteredatdesc", "enteredatdesc">>, <<"visitdescription", "visitdescription">>,
      <<"updatedon", "updatedon">>, <<"actioncode", "actioncode">>,
      <<"externalid", "externalid">>, <<"hdp01", "hdp01">>, <<"hdp02", "hdp02">>,
      <<"hdp03", "hdp03">>, <<"hdp04", "hdp04">>, <<"qbl05", "qbl05">>, <<"qbl06", "qbl06">>,
      <<"qbl07", "qbl07">>, <<"erf61", "erf61">>, <<"pat35", "pat35">>,
      <<"update_date", "update_date">> >>,
   primary_key |-> {"id"},
   foreign_keys |-> {<<"pid", "patientrecord", "pid">>},
   not_nullable |-> { "creation_date" },
   synonyms |-> << <<"encounter_number", "encounternumber">>, <<"encounter_type", "encountertype">>,
         <<"from_time", "fromtime">>, <<"to_time", "totime">>,
         <<"admitting_clinician_code", "admittingcliniciancode">>,
         <<"admitting_clinician_code_std", "admittingcliniciancodestd">>,
         <<"admitting_clinician_desc", "admittingcliniciandesc">>,
         <<"admission_source_code", "admissionsourcecode">>,
         <<"admission_source_code_std", "admissionsourcecodestd">>,
         <<"admission_source_desc", "admissionsourcedesc">>,
         <<"admit_reason_code", "admitreasoncode">>,
         <<"admit_reason_code_std", "admitreasoncodestd">>,
         <<"discharge_reason_code", "dischargereasoncode">>,
         <<"discharge_reason_code_std", "dischargereasoncodestd">>,
         <<"discharge_location_code", "dischargelocationcode">>,
         <<"discharge_location_code_std", "dischargelocationcodestd">>,
         <<"discharge_location_desc", "dischargelocationdesc">>,
         <<"health_care_facility_code", "healthcarefacilitycode">>,
         <<"health_care_facility_code_std", "healthcarefacilitycodestd">>,
         <<"health_care_facility_desc", "healthcarefacilitydesc">>,
         <<"entered_at_code", "enteredatcode">>, <<"visit_description", "visitdescription">>,
         <<"updated_on", "updatedon">>, <<"action_code", "actioncode">>,
         <<"external_id", "externalid">> >>,
   relationships |-> << [key |-> "admit_reason_code_item", argument |-> "Code", cascade |-> {}, backref |-> "", back_populates |-> "", uselist |-> "default", viewonly |-> FALSE,
      foreign_keys |-> "", secondary |-> "", primaryjoin |-> << <<"foreign", "admit_reason_code", "code">> >>],
     [key |-> "discharge_reason_code_item", argument |-> "Code", cascade |-> {}, backref |-> "", back_populates |-> "", uselist |-> "default", viewonly |-> FALSE,
      foreign_keys |-> "", secondary |-> "", primaryjoin |-> << <<"foreign", "discharge_reason_code_std", "coding_standard">>, <<"foreign", "discharge_reason_code", "code">> >>] >>,
   proxies |-> << <<"admit_reason_desc", "admit_reason_code_item", "description">>,
      <<"discharge_reason_desc", "discharge_reason_code_item", "description">> >>,
   properties |-> <<>>,
   other |-> {},
   private |-> {"__tablename__"}]
\* a faulty declaration: admit_reason_code_item joined on the coding standard alone
ukrdc_Treatment_standardonly ==
  [name |-> "Treatment", tablename |-> "treatment",
   columns |-> << <<"id", "id">>, <<"pid", "pid">>, <<"creation_date", "creation_date">>, <<"idx", "idx">>,
      <<"encounternumber", "encounternumber">>, <<"encountertype", "encountertype">>,
      <<"fromtime", "fromtime">>, <<"totime", "totime">>,
      <<"admittingcliniciancode", "admittingcliniciancode">>,
      <<"admittingcliniciancodestd", "admittingcliniciancodestd">>,
      <<"admittingcliniciandesc", "admittingcliniciandesc">>,
      <<"admitreasoncode", "admitreasoncode">>, <<"admitreasoncodestd", "admitreasoncodestd">>,
      <<"admitreasondesc", "admitreasondesc">>, <<"admissionsourcecode", "admissionsourcecode">>,
      <<"admissionsourcecodestd", "admissionsourcecodestd">>,
      <<"admissionsourcedesc", "admissionsourcedesc">>,
      <<"dischargereasoncode", "dischargereasoncode">>,
      <<"dischargereasoncodestd", "dischargereasoncodestd">>,
      <<"dischargereasondesc", "dischargereasondesc">>,
      <<"dischargelocationcode", "dischargelocationcode">>,
      <<"dischargelocationcodestd", "dischargelocationcodestd">>,
      <<"dischargelocationdesc", "dischargelocationdesc">>,
      <<"healthcarefacilitycode", "healthcarefacilitycode">>,
      <<"healthcarefacilitycodestd", "healthcarefacilitycodestd">>,
      <<"healthcarefacilitydesc", "healthcarefacilitydesc">>,
      <<"enteredatcode", "enteredatcode">>, <<"enteredatcodestd", "enteredatcodestd">>,
      <<"enteredatdesc", "enteredatdesc">>, <<"visitdescription", "visitdescription">>,
      <<"updatedon", "updatedon">>, <<"actioncode", "actioncode">>,
      <<"externalid", "externalid">>, <<"hdp01", "hdp01">>, <<"hdp02", "hdp02">>,
      <<"hdp03", "hdp03">>, <<"hdp04", "hdp04">>, <<"qbl05", "qbl05">>, <<"qbl06", "qbl06">>,
      <<"qbl07", "qbl07">>, <<"erf61", "erf61">>, <<"pat35", "pat35">>,
      <<"update_date", "update_date">> >>,
   primary_key |-> {"id"},
   foreign_keys |-> {<<"pid", "patientrecord", "pid">>},
   not_nullable |-> { "creation_date" },
   synonyms |-> << <<"encounter_number", "encounternumber">>, <<"encounter_type", "encountertype">>,
         <<"from_time", "fromtime">>, <<"to_time", "totime">>,
         <<"admitting_clinician_code", "admittingcliniciancode">>,
         <<"admitting_clinician_code_std", "admittingcliniciancodestd">>,
         <<"admitting_clinician_desc", "admittingcliniciandesc">>,
         <<"admission_source_code", "admissionsourcecode">>,
         <<"admission_source_code_std", "admissionsourcecodestd">>,
         <<"admission_source_desc", "admissionsourcedesc">>,
         <<"admit_reason_code", "admitreasoncode">>,
         <<"admit_reason_code_std", "admitreasoncodestd">>,
         <<"discharge_reason_code", "dischargereasoncode">>,
         <<"discharge_reason_code_std", "dischargereasoncodestd">>,
         <<"discharge_location_code", "dischargelocationcode">>,
         <<"discharge_location_code_std", "dischargelocationcodestd">>,
         <<"discharge_location_desc", "dischargelocationdesc">>,
         <<"health_care_facility_code", "healthcarefacilitycode">>,
         <<"health_care_facility_code_std", "healthcarefacilitycodestd">>,
         <<"health_care_facility_desc", "healthcarefacilitydesc">>,
         <<"entered_at_code", "enteredatcode">>, <<"visit_description", "visitdescription">>,
         <<"updated_on", "updatedon">>, <<"action_code", "actioncode">>,
         <<"external_id", "externalid">> >>,
   relationships |-> << [key |-> "admit_reason_code_item", argument |-> "Code", cascade |-> {}, backref |-> "", back_populates |-> "", uselist |-> "default", viewonly |-> FALSE,
      foreign_keys |-> "", secondary |-> "", primaryjoin |-> << <<"foreign", "admit_reason_code_std", "coding_standard">> >>],
     [key |-> "discharge_reason_code_item", argument |-> "Code", cascade |-> {}, backref |-> "", back_populates |-> "", uselist |-> "default", viewonly |-> FALSE,
      foreign_keys |-> "", secondary |-> "", primaryjoin |-> << <<"foreign", "discharge_reason_code_std", "coding_standard">>, <<"foreign", "discharge_reason_code", "code">> >>] >>,
   proxies |-> << <<"admit_reason_desc", "admit_reason_code_item", "description">>,
      <<"discharge_reason_desc", "discharge_reason_code_item", "description">> >>,
   properties |-> <<>>,
   other |-> {},
   private |-> {"__tablename__"}]
ukrdc_Treatment ==
  [name |-> "Treatment", tablename |-> "treatment",
   columns |-> << <<"id", "id">>, <<"pid", "pid">>, <<"creation_date", "creation_date">>, <<"idx", "idx">>,
      <<"encounternumber", "encounternumber">>, <<"encountertype", "encountertype">>,
      <<"fromtime", "fromtime">>, <<"totime", "totime">>,
      <<"admittingcliniciancode", "admittingcliniciancode">>,
      <<"admittingcliniciancodestd", "admittingcliniciancodestd">>,
      <<"admittingcliniciandesc", "admittingcliniciandesc">>,
      <<"admitreasoncode", "admitreasoncode">>, <<"admitreasoncodestd", "admitreasoncodestd">>,
      <<"admitreasondesc", "admitreasondesc">>, <<"admissionsourcecode", "admissionsourcecode">>,
      <<"admissionsourcecodestd", "admissionsourcecodestd">>,
      <<"admissionsourcedesc", "admissionsourcedesc">>,
      <<"dischargereasoncode", "dischargereasoncode">>,
      <<"dischargereasoncodestd", "dischargereasoncodestd">>,
      <<"dischargereasondesc", "dischargereasondesc">>,
      <<"dischargelocationcode", "dischargelocationcode">>,
      <<"dischargelocationcodestd", "dischargelocationcodestd">>,
      <<"dischargelocationdesc", "dischargelocationdesc">>,
      <<"healthcarefacilitycode", "healthcarefacilitycode">>,
      <<"healthcarefacilitycodestd", "healthcarefacilitycodestd">>,
      <<"healthcarefacilitydesc", "healthcarefacilitydesc">>,
      <<"enteredatcode", "enteredatcode">>, <<"enteredatcodestd", "enteredatcodestd">>,
      <<"enteredatdesc", "enteredatdesc">>, <<"visitdescription", "visitdescription">>,
      <<"updatedon", "updatedon">>, <<"actioncode", "actioncode">>,
      <<"externalid", "externalid">>, <<"hdp01", "hdp01">>, <<"hdp02", "hdp02">>,
      <<"hdp03", "hdp03">>, <<"hdp04", "hdp04">>, <<"qbl05", "qbl05">>, <<"qbl06", "qbl06">>,
      <<"qbl07", "qbl07">>, <<"erf61", "erf61">>, <<"pat35", "pat35">>,
      <<"update_date", "update_date">> >>,
   primary_key |-> {"id"},
   foreign_keys |-> {<<"pid", "patientrecord", "pid">>},
   not_nullable |-> { "creation_date" },
   synonyms |-> << <<"encounter_number", "encounternumber">>, <<"encounter_type", "encountertype">>,
         <<"from_time", "fromtime">>, <<"to_time", "totime">>,
         <<"admitting_clinician_code", "admittingcliniciancode">>,
         <<"admitting_clinician_code_std", "admittingcliniciancodestd">>,
         <<"admitting_clinician_desc", "admittingcliniciandesc">>,
         <<"admission_source_code", "admissionsourcecode">>,
         <<"admission_source_code_std", "admissionsourcecodestd">>,
         <<"admission_source_desc", "admissionsourcedesc">>,
         <<"admit_reason_code", "admitreasoncode">>,
         <<"admit_reason_code_std", "admitreasoncodestd">>,
         <<"discharge_reason_code", "dischargereasoncode">>,
         <<"discharge_reason_code_std", "dischargereasoncodestd">>,
         <<"discharge_location_code", "dischargelocationcode">>,
         <<"discharge_location_code_std", "dischargelocationcodestd">>,
         <<"discharge_location_desc", "dischargelocationdesc">>,
         <<"health_care_facility_code", "healthcarefacilitycode">>,
         <<"health_care_facility_code_std", "healthcarefacilitycodestd">>,
         <<"health_care_facility_desc", "healthcarefacilitydesc">>,
         <<"entered_at_code", "enteredatcode">>, <<"visit_description", "visitdescription">>,
         <<"updated_on", "updatedon">>, <<"action_code", "actioncode">>,
         <<"external_id", "externalid">> >>,
   relationships |-> << [key |-> "admit_reason_code_item", argument |-> "Code", cascade |-> {}, backref |-> "", back_populates |-> "", uselist |-> "default", viewonly |-> FALSE,
      foreign_keys |-> "", secondary |-> "", primaryjoin |-> << <<"foreign", "admit_reason_code_std", "coding_standard">>, <<"foreign", "admit_reason_code", "code">> >>],
     [key |-> "discharge_reason_code_item", argument |-> "Code", cascade |-> {}, backref |-> "", back_populates |-> "", uselist |-> "default", viewonly |-> FALSE,
      foreign_keys |-> "", secondary |-> "", primaryjoin |-> << <<"foreign", "discharge_reason_code_std", "coding_standard">>, <<"foreign", "discharge_reason_code", "code">> >>] >>,
   proxies |-> << <<"admit_reason_desc", "admit_reason_code_item", "description">>,
      <<"discharge_reason_desc", "discharge_reason_code_item", "description">> >>,
   properties |-> <<>>,
   other |-> {},
   private |-> {"__tablename__"}]
\* a faulty declaration: description made part of the primary key
ukrdc_Code_descriptionkey ==
  [name |-> "Code", tablename |-> "code_list",
   columns |-> << <<"coding_standard", "coding_standard">>, <<"code", "code">>,
      <<"creation_date", "creation_date">>, <<"description", "description">>,
      <<"object_type", "object_type">>, <<"update_date", "update_date">>, <<"units", "units">>,
      <<"pkb_reference_range", "pkb_reference_range">>, <<"pkb_comment", "pkb_comment">> >>,
   primary_key |-> {"coding_standard", "code", "description"},
   foreign_keys |-> {},
   not_nullable |-> { "creation_date" },
   synonyms |-> <<>>,
   relationships |-> <<>>,
   proxies |-> <<>>,
   properties |-> <<>>,
   other |-> {},
   private |-> {"__tablename__"}]
ukrdc_Code ==
  [name |-> "Code", tablename |-> "code_list",
   columns |-> << <<"coding_standard", "coding_standard">>, <<"code", "code">>,
      <<"creation_date", "creation_date">>, <<"description", "description">>,
      <<"object_type", "object_type">>, <<"update_date", "update_date">>, <<"units", "units">>,
      <<"pkb_reference_range", "pkb_reference_range">>, <<"pkb_comment", "pkb_comment">> >>,
   primary_key |-> {"coding_standard", "code"},
   foreign_keys |-> {},
   not_nullable |-> { "creation_date" },
   synonyms |-> <<>>,
   relationships |-> <<>>,
   proxies |-> <<>>,
   properties |-> <<>>,
   other |-> {},
   private |-> {"__tablename__"}]
\* a faulty declaration: code_info declared with a delete cascade
ukrdc_Facility_relationships_deletecascade ==
  << [key |-> "code_info", argument |-> "Code", cascade |-> {"all", "delete-orphan"}, backref |-> "", back_populates |-> "", uselist |-> "default", viewonly |-> FALSE,
      foreign_keys |-> "", secondary |-> "", primaryjoin |-> << <<"literal", "RR1+", "coding_standard">>, <<"foreign", "code", "code">> >>] >>
\* a faulty declaration: code_info joined on the code alone, whatever the coding standard
ukrdc_Facility_relationships_anystandard ==
  << [key |-> "code_info", argument |-> "Code", cascade |-> {}, backref |-> "", back_populates |-> "", uselist |-> "default", viewonly |-> FALSE,
      foreign_keys |-> "", secondary |-> "", primaryjoin |-> << <<"foreign", "code", "code">> >>] >>
ukrdc_Facility_relationships ==
  << [key |-> "code_info", argument |-> "Code", cascade |-> {}, backref |-> "", back_populates |-> "", uselist |-> "default", viewonly |-> FALSE,
      foreign_keys |-> "", secondary |-> "", primaryjoin |-> << <<"literal", "RR1+", "coding_standard">>, <<"foreign", "code", "code">> >>] >>
\* module namespace of src/ukrdc_sqla/ukrdc.py: class name -> class, in definition order
ukrdc_classes ==
  << [name |-> "PatientRecord", tablename |-> "patientrecord",
      columns |-> << <<"pid", "pid">>, <<"sendingfacility", "sendingfacility">>,
      <<"sendingextract", "sendingextract">>, <<"localpatientid", "localpatientid">>,
      <<"repositorycreationdate", "repositorycreationdate">>,
      <<"repositoryupdatedate", "repositoryupdatedate">>, <<"migrated", "migrated">>,
      <<"creation_date", "creation_date">>, <<"ukrdcid", "ukrdcid">>,
      <<"channelname", "channelname">>, <<"channelid", "channelid">>,
      <<"extracttime", "extracttime">>, <<"startdate", "startdate">>, <<"stopdate", "stopdate">>,
      <<"schemaversion", "schemaversion">>, <<"update_date", "update_date">> >>,
      primary_key |-> {"pid"},
      foreign_keys |-> {},
      not_nullable |-> { "sendingfacility", "sendingextract", "localpatientid", "repositorycreationdate",
      "repositoryupdatedate", "migrated", "creation_date" },
      synonyms |-> ukrdc_PatientRecord_synonyms,
      relationships |-> << [key |-> "patient", argument |-> "Patient", cascade |-> {"all", "delete-orphan"}, backref |-> "record", back_populates |-> "", uselist |-> "False", viewonly |-> FALSE,
      foreign_keys |-> "", secondary |-> "", primaryjoin |-> <<>>],
     [key |-> "lab_orders", argument |-> "LabOrder", cascade |-> {"all", "delete-orphan"}, backref |-> "record", back_populates |-> "", uselist |-> "default", viewonly |-> FALSE,
      foreign_keys |-> "", secondary |-> "", primaryjoin |-> <<>>],
     [key |-> "result_items", argument |-> "ResultItem", cascade |-> {}, backref |-> "", back_populates |-> "", uselist |-> "default", viewonly |-> TRUE,
      foreign_keys |-> "", secondary |-> "laborder", primaryjoin |-> << <<"equal", "LabOrder.pid", "PatientRecord.pid">> >>],
     [key |-> "observations", argument |-> "Observation", cascade |-> {"all", "delete-orphan"}, backref |-> "record", back_populates |-> "", uselist |-> "default", viewonly |-> FALSE,
      foreign_keys |-> "", secondary |-> "", primaryjoin |-> <<>>],
     [key |-> "social_histories", argument |-> "SocialHistory", cascade |-> {"all", "delete-orphan"}, backref |-> "", back_populates |-> "", uselist |-> "default", viewonly |-> FALSE,
      foreign_keys |-> "", secondary |-> "", primaryjoin |-> <<>>],
     [key |-> "family_histories", argument |-> "FamilyHistory", cascade |-> {"all", "delete-orphan"}, backref |-> "", back_populates |-> "", uselist |-> "default", viewonly |-> FALSE,
      foreign_keys |-> "", secondary |-> "", primaryjoin |-> <<>>],
     [key |-> "allergies", argument |-> "Allergy", cascade |-> {"all", "delete-orphan"}, backref |-> "", back_populates |-> "", uselist |-> "default", viewonly |-> FALSE,
      foreign_keys |-> "", secondary |-> "", primaryjoin |-> <<>>],
     [key |-> "diagnoses", argument |-> "Diagnosis", cascade |-> {"all", "delete-orphan"}, backref |-> "", back_populates |-> "", uselist |-> "default", viewonly |-> FALSE,
      foreign_keys |-> "", secondary |-> "", primaryjoin |-> <<>>],
     [key |-> "cause_of_death", argument |-> "CauseOfDeath", cascade |-> {"all", "delete-orphan"}, backref |-> "", back_populates |-> "", uselist |-> "default", viewonly |-> FALSE,
      foreign_keys |-> "", secondary |-> "", primaryjoin |-> <<>>],
     [key |-> "renaldiagnoses", argument |-> "RenalDiagnosis", cascade |-> {"all", "delete-orphan"}, backref |-> "", back_populates |-> "", uselist |-> "default", viewonly |-> FALSE,
      foreign_keys |-> "", secondary |-> "", primaryjoin |-> <<>>],
     [key |-> "medications", argument |-> "Medication", cascade |-> {"all", "delete-orphan"}, backref |-> "", back_populates |-> "", uselist |-> "default", viewonly |-> FALSE,
      foreign_keys |-> "", secondary |-> "", primaryjoin |-> <<>>],
     [key |-> "dialysis_sessions", argument |-> "DialysisSession", cascade |-> {"all", "delete-orphan"}, backref |-> "", back_populates |-> "", uselist |-> "default", viewonly |-> FALSE,
      foreign_keys |-> "", secondary |-> "", primaryjoin |-> <<>>],
     [key |-> "vascular_accesses", argument |-> "VascularAccess", cascade |-> {"all", "delete-orphan"}, backref |-> "", back_populates |-> "", uselist |-> "default", viewonly |-> FALSE,
      foreign_keys |-> "", secondary |-> "", primaryjoin |-> <<>>],
     [key |-> "procedures", argument |-> "Procedure", cascade |-> {"all", "delete-orphan"}, backref |-> "", back_populates |-> "", uselist |-> "default", viewonly |-> FALSE,
      foreign_keys |-> "", secondary |-> "", primaryjoin |-> <<>>],
     [key |-> "documents", argument |-> "Document", cascade |-> {"all", "delete-orphan"}, backref |-> "", back_populates |-> "", uselist |-> "default", viewonly |-> FALSE,
      foreign_keys |-> "", secondary |-> "", primaryjoin |-> <<>>],
     [key |-> "encounters", argument |-> "Encounter", cascade |-> {"all", "delete-orphan"}, backref |-> "", back_populates |-> "", uselist |-> "default", viewonly |-> FALSE,
      foreign_keys |-> "", secondary |-> "", primaryjoin |-> <<>>],
     [key |-> "transplantlists", argument |-> "TransplantList", cascade |-> {"all", "delete-orphan"}, backref |-> "", back_populates |-> "", uselist |-> "default", viewonly |-> FALSE,
      foreign_keys |-> "", secondary |-> "", primaryjoin |-> <<>>],
     [key |-> "treatments", argument |-> "Treatment", cascade |-> {"all", "delete-orphan"}, backref |-> "", back_populates |-> "", uselist |-> "default", viewonly |-> FALSE,
      foreign_keys |-> "", secondary |-> "", primaryjoin |-> <<>>],
     [key |-> "program_memberships", argument |-> "ProgramMembership", cascade |-> {"all", "delete-orphan"}, backref |-> "", back_populates |-> "", uselist |-> "default", viewonly |-> FALSE,
      foreign_keys |-> "", secondary |-> "", primaryjoin |-> <<>>],
     [key |-> "transplants", argument |-> "Transplant", cascade |-> {"all", "delete-orphan"}, backref |-> "", back_populates |-> "", uselist |-> "default", viewonly |-> FALSE,
      foreign_keys |-> "", secondary |-> "", primaryjoin |-> <<>>],
     [key |-> "opt_outs", argument |-> "OptOut", cascade |-> {"all", "delete-orphan"}, backref |-> "", back_populates |-> "", uselist |-> "default", viewonly |-> FALSE,
      foreign_keys |-> "", secondary |-> "", primaryjoin |-> <<>>],
     [key |-> "clinical_relationships", argument |-> "ClinicalRelationship", cascade |-> {"all", "delete-orphan"}, backref |-> "", back_populates |-> "", uselist |-> "default", viewonly |-> FALSE,
      foreign_keys |-> "", secondary |-> "", primaryjoin |-> <<>>],
     [key |-> "surveys", argument |-> "Survey", cascade |-> {"all", "delete-orphan"}, backref |-> "", back_populates |-> "", uselist |-> "default", viewonly |-> FALSE,
      foreign_keys |-> "", secondary |-> "", primaryjoin |-> <<>>],
     [key |-> "pvdata", argument |-> "PVData", cascade |-> {"all", "delete-orphan"}, backref |-> "", back_populates |-> "", uselist |-> "False", viewonly |-> FALSE,
      foreign_keys |-> "", secondary |-> "", primaryjoin |-> <<>>],
     [key |-> "pvdelete", argument |-> "PVDelete", cascade |-> {"all", "delete-orphan"}, backref |-> "", back_populates |-> "", uselist |-> "default", viewonly |-> FALSE,
      foreign_keys |-> "", secondary |-> "", primaryjoin |-> <<>>] >>,
      proxies |-> <<>>,
      properties |-> <<>>,
      other |-> {},
      private |-> {"__tablename__", "__str__"}],
     [name |-> "Patient", tablename |-> "patient",
      columns |-> << <<"pid", "pid">>, <<"creation_date", "creation_date">>, <<"birthtime", "birthtime">>,
      <<"deathtime", "deathtime">>, <<"gender", "gender">>,
      <<"countryofbirth", "countryofbirth">>, <<"ethnicgroupcode", "ethnicgroupcode">>,
      <<"ethnicgroupcodestd", "ethnicgroupcodestd">>, <<"ethnicgroupdesc", "ethnicgroupdesc">>,
      <<"occupationcode", "occupationcode">>, <<"occupationcodestd", "occupationcodestd">>,
      <<"occupationdesc", "occupationdesc">>, <<"primarylanguagecode", "primarylanguagecode">>,
      <<"primarylanguagecodestd", "primarylanguagecodestd">>,
      <<"primarylanguagedesc", "primarylanguagedesc">>, <<"death", "death">>,
      <<"persontocontactname", "persontocontactname">>,
      <<"persontocontact_relationship", "persontocontact_relationship">>,
      <<"persontocontact_contactnumber", "persontocontact_contactnumber">>,
      <<"persontocontact_contactnumbertype", "persontocontact_contactnumbertype">>,
      <<"persontocontact_contactnumbercomments", "persontocontact_contactnumbercomments">>,
      <<"updatedon", "updatedon">>, <<"actioncode", "actioncode">>,
      <<"externalid", "externalid">>, <<"bloodgroup", "bloodgroup">>,
      <<"bloodrhesus", "bloodrhesus">>, <<"update_date", "update_date">> >>,
      primary_key |-> {"pid"},
      foreign_keys |-> {<<"pid", "patientrecord", "pid">>},
      not_nullable |-> { "creation_date" },
      synonyms |-> << <<"id", "pid">>, <<"birth_time", "birthtime">>, <<"death_time", "deathtime">>,
         <<"country_of_birth", "countryofbirth">>, <<"ethnic_group_code", "ethnicgroupcode">>,
         <<"ethnic_group_code_std", "ethnicgroupcodestd">>,
         <<"ethnic_group_description", "ethnicgroupdesc">>,
         <<"person_to_contact_name", "persontocontactname">>,
         <<"person_to_contact_number", "persontocontact_contactnumber">>,
         <<"person_to_contact_relationship", "persontocontact_relationship">>,
         <<"person_to_contact_number_comments", "persontocontact_numbercomments">>,
         <<"person_to_contact_number_type", "persontocontact_contactnumbertype">>,
         <<"occupation_code", "occupationcode">>, <<"occupation_codestd", "occupationcodestd">>,
         <<"occupation_description", "occupationdesc">>,
         <<"primary_language", "primarylanguagecode">>,
         <<"primary_language_codestd", "primarylanguagecodestd">>,
         <<"primary_language_description", "primarylanguagedesc">>, <<"dead", "death">>,
         <<"updated_on", "updatedon">> >>,
      relationships |-> << [key |-> "numbers", argument |-> "PatientNumber", cascade |-> {"all", "delete-orphan"}, backref |-> "patient", back_populates |-> "", uselist |-> "default", viewonly |-> FALSE,
      foreign_keys |-> "", secondary |-> "", primaryjoin |-> <<>>],
     [key |-> "names", argument |-> "Name", cascade |-> {"all", "delete-orphan"}, backref |-> "", back_populates |-> "", uselist |-> "default", viewonly |-> FALSE,
      foreign_keys |-> "", secondary |-> "", primaryjoin |-> <<>>],
     [key |-> "contact_details", argument |-> "ContactDetail", cascade |-> {"all", "delete-orphan"}, backref |-> "", back_populates |-> "", uselist |-> "default", viewonly |-> FALSE,
      foreign_keys |-> "", secondary |-> "", primaryjoin |-> <<>>],
     [key |-> "addresses", argument |-> "Address", cascade |-> {"all", "delete-orphan"}, backref |-> "", back_populates |-> "", uselist |-> "default", viewonly |-> FALSE,
      foreign_keys |-> "", secondary |-> "", primaryjoin |-> <<>>],
     [key |-> "familydoctor", argument |-> "FamilyDoctor", cascade |-> {"all", "delete-orphan"}, backref |-> "", back_populates |-> "", uselist |-> "False", viewonly |-> FALSE,
      foreign_keys |-> "", secondary |-> "", primaryjoin |-> <<>>] >>,
      proxies |-> <<>>,
      properties |-> << "name", "first_ni_number", "first_hospital_number" >>,
      other |-> {},
      private |-> {"__tablename__", "__str__"}],
     [name |-> "CauseOfDeath", tablename |-> "causeofdeath",
      columns |-> << <<"pid", "pid">>, <<"creation_date", "creation_date">>,
      <<"diagnosistype", "diagnosistype">>,
      <<"diagnosingcliniciancode", "diagnosingcliniciancode">>,
      <<"diagnosingcliniciancodestd", "diagnosingcliniciancodestd">>,
      <<"diagnosingcliniciandesc", "diagnosingcliniciandesc">>,
      <<"diagnosiscode", "diagnosiscode">>, <<"diagnosiscodestd", "diagnosiscodestd">>,
      <<"diagnosisdesc", "diagnosisdesc">>, <<"comments", "comments">>,
      <<"enteredon", "enteredon">>, <<"updatedon", "updatedon">>, <<"actioncode", "actioncode">>,
      <<"externalid", "externalid">>, <<"update_date", "update_date">> >>,
      primary_key |-> {"pid"},
      foreign_keys |-> {<<"pid", "patientrecord", "pid">>},
      not_nullable |-> { "creation_date" },
      synonyms |-> << <<"id", "pid">>, <<"diagnosis_type", "diagnosistype">>,
         <<"diagnosing_clinician_code", "diagnosingcliniciancode">>,
         <<"diagnosing_clinician_code_std", "diagnosingcliniciancodestd">>,
         <<"diagnosing_clinician_desc", "diagnosingcliniciandesc">>,
         <<"diagnosis_code", "diagnosiscode">>, <<"diagnosis_code_std", "diagnosiscodestd">>,
         <<"diagnosis_desc", "diagnosisdesc">>, <<"entered_on", "enteredon">>,
         <<"updated_on", "updatedon">>, <<"action_code", "actioncode">>,
         <<"external_id", "externalid">> >>,
      relationships |-> <<>>,
      proxies |-> <<>>,
      properties |-> <<>>,
      other |-> {},
      private |-> {"__tablename__"}],
     [name |-> "FamilyDoctor", tablename |-> "familydoctor",
      columns |-> << <<"id", "id">>, <<"creation_date", "creation_date">>, <<"gpname", "gpname">>,
      <<"gpid", "gpid">>, <<"gppracticeid", "gppracticeid">>, <<"addressuse", "addressuse">>,
      <<"fromtime", "fromtime">>, <<"totime", "totime">>, <<"street", "street">>,
      <<"town", "town">>, <<"county", "county">>, <<"postcode", "postcode">>,
      <<"countrycode", "countrycode">>, <<"countrycodestd", "countrycodestd">>,
      <<"countrydesc", "countrydesc">>, <<"contactuse", "contactuse">>,
      <<"contactvalue", "contactvalue">>, <<"email", "email">>, <<"commenttext", "commenttext">>,
      <<"update_date", "update_date">> >>,
      primary_key |-> {"id"},
      foreign_keys |-> {<<"id", "patient", "pid">>, <<"gpid", "ukrdc_ods_gp_codes", "code">>, <<"gppracticeid", "ukrdc_ods_gp_codes", "code">>},
      not_nullable |-> { "creation_date" },
      synonyms |-> <<>>,
      relationships |-> << [key |-> "gp_info", argument |-> "GPInfo", cascade |-> {}, backref |-> "", back_populates |-> "", uselist |-> "False", viewonly |-> FALSE,
      foreign_keys |-> "gpid", secondary |-> "", primaryjoin |-> <<>>],
     [key |-> "gp_practice_info", argument |-> "GPInfo", cascade |-> {}, backref |-> "", back_populates |-> "", uselist |-> "False", viewonly |-> FALSE,
      foreign_keys |-> "gppracticeid", secondary |-> "", primaryjoin |-> <<>>] >>,
      proxies |-> <<>>,
      properties |-> <<>>,
      other |-> {},
      private |-> {"__tablename__", "__str__"}],
     [name |-> "GPInfo", tablename |-> "ukrdc_ods_gp_codes",
      columns |-> << <<"code", "code">>, <<"creation_date", "creation_date">>, <<"name", "name">>,
      <<"address1", "address1">>, <<"postcode", "postcode">>, <<"phone", "phone">>,
      <<"type", "type">>, <<"update_date", "update_date">> >>,
      primary_key |-> {"code"},
      foreign_keys |-> {},
      not_nullable |-> { "creation_date" },
      synonyms |-> << <<"gpname", "name">>, <<"street", "address1">>, <<"contactvalue", "phone">> >>,
      relationships |-> <<>>,
      proxies |-> <<>>,
      properties |-> <<>>,
      other |-> {},
      private |-> {"__tablename__"}],
     [name |-> "SocialHistory", tablename |-> "socialhistory",
      columns |-> << <<"id", "id">>, <<"pid", "pid">>, <<"creation_date", "creation_date">>, <<"idx", "idx">>,
      <<"socialhabitcode", "socialhabitcode">>, <<"socialhabitcodestd", "socialhabitcodestd">>,
      <<"socialhabitdesc", "socialhabitdesc">>, <<"updatedon", "updatedon">>,
      <<"actioncode", "actioncode">>, <<"externalid", "externalid">>,
      <<"update_date", "update_date">> >>,
      primary_key |-> {"id"},
      foreign_keys |-> {<<"pid", "patientrecord", "pid">>},
      not_nullable |-> { "creation_date" },
      synonyms |-> <<>>,
      relationships |-> <<>>,
      proxies |-> <<>>,
      properties |-> <<>>,
      other |-> {},
      private |-> {"__tablename__"}],
     [name |-> "FamilyHistory", tablename |-> "familyhistory",
      columns |-> << <<"id", "id">>, <<"pid", "pid">>, <<"creation_date", "creation_date">>, <<"idx", "idx">>,
      <<"familymembercode", "familymembercode">>,
      <<"familymembercodestd", "familymembercodestd">>,
      <<"familymemberdesc", "familymemberdesc">>, <<"diagnosiscode", "diagnosiscode">>,
      <<"diagnosiscodestd", "diagnosiscodestd">>, <<"diagnosisdesc", "diagnosisdesc">>,
      <<"notetext", "notetext">>, <<"enteredatcode", "enteredatcode">>,
      <<"enteredatcodestd", "enteredatcodestd">>, <<"enteredatdesc", "enteredatdesc">>,
      <<"fromtime", "fromtime">>, <<"totime", "totime">>, <<"updatedon", "updatedon">>,
      <<"actioncode", "actioncode">>, <<"externalid", "externalid">>,
      <<"update_date", "update_date">> >>,
      primary_key |-> {"id"},
      foreign_keys |-> {<<"pid", "patientrecord", "pid">>},
      not_nullable |-> { "creation_date" },
      synonyms |-> <<>>,
      relationships |-> <<>>,
      proxies |-> <<>>,
      properties |-> <<>>,
      other |-> {},
      private |-> {"__tablename__"}],
     [name |-> "Observation", tablename |-> "observation",
      columns |-> << <<"id", "id">>, <<"pid", "pid">>, <<"creation_date", "creation_date">>, <<"idx", "idx">>,
      <<"observationtime", "observationtime">>, <<"observationcode", "observationcode">>,
      <<"observationcodestd", "observationcodestd">>, <<"observationdesc", "observationdesc">>,
      <<"observationvalue", "observationvalue">>, <<"observationunits", "observationunits">>,
      <<"prepost", "prepost">>, <<"commenttext", "commenttext">>,
      <<"cliniciancode", "cliniciancode">>, <<"cliniciancodestd", "cliniciancodestd">>,
      <<"cliniciandesc", "cliniciandesc">>, <<"enteredatcode", "enteredatcode">>,
      <<"enteredatcodestd", "enteredatcodestd">>, <<"enteredatdesc", "enteredatdesc">>,
      <<"enteringorganizationcode", "enteringorganizationcode">>,
      <<"enteringorganizationcodestd", "enteringorganizationcodestd">>,
      <<"enteringorganizationdesc", "enteringorganizationdesc">>, <<"updatedon", "updatedon">>,
      <<"actioncode", "actioncode">>, <<"externalid", "externalid">>,
      <<"update_date", "update_date">> >>,
      primary_key |-> {"id"},
      foreign_keys |-> {<<"pid", "patientrecord", "pid">>},
      not_nullable |-> { "creation_date" },
      synonyms |-> << <<"observation_time", "observationtime">>, <<"observation_code", "observationcode">>,
         <<"observation_code_std", "observationcodestd">>,
         <<"observation_desc", "observationdesc">>, <<"observation_value", "observationvalue">>,
         <<"observation_units", "observationunits">>, <<"comment_text", "commenttext">>,
         <<"clinician_code", "cliniciancode">>, <<"clinician_code_std", "cliniciancodestd">>,
         <<"clinician_desc", "cliniciandesc">>, <<"entered_at", "enteredatcode">>,
         <<"entered_at_description", "enteredatdesc">>,
         <<"entering_organization_code", "enteringorganizationcode">>,
         <<"entering_organization_description", "enteringorganizationdesc">>,
         <<"updated_on", "updatedon">>, <<"action_code", "actioncode">>,
         <<"external_id", "externalid">>, <<"pre_post", "prepost">> >>,
      relationships |-> <<>>,
      proxies |-> <<>>,
      properties |-> <<>>,
      other |-> {},
      private |-> {"__tablename__", "__str__"}],
     [name |-> "OptOut", tablename |-> "optout",
      columns |-> << <<"id", "id">>, <<"pid", "pid">>, <<"creation_date", "creation_date">>, <<"idx", "idx">>,
      <<"programname", "programname">>, <<"programdescription", "programdescription">>,
      <<"enteredbycode", "enteredbycode">>, <<"enteredbycodestd", "enteredbycodestd">>,
      <<"enteredbydesc", "enteredbydesc">>, <<"enteredatcode", "enteredatcode">>,
      <<"enteredatcodestd", "enteredatcodestd">>, <<"enteredatdesc", "enteredatdesc">>,
      <<"fromtime", "fromtime">>, <<"totime", "totime">>, <<"updatedon", "updatedon">>,
      <<"actioncode", "actioncode">>, <<"externalid", "externalid">>,
      <<"update_date", "update_date">> >>,
      primary_key |-> {"id"},
      foreign_keys |-> {<<"pid", "patientrecord", "pid">>},
      not_nullable |-> { "creation_date" },
      synonyms |-> << <<"program_name", "programname">>, <<"program_description", "programdescription">>,
         <<"entered_by_code", "enteredbycode">>, <<"entered_by_code_std", "enteredbycodestd">>,
         <<"entered_by_desc", "enteredbydesc">>, <<"entered_at_code", "enteredatcode">>,
         <<"entered_at_code_std", "enteredatcodestd">>, <<"entered_at_desc", "enteredatdesc">>,
         <<"from_time", "fromtime">>, <<"to_time", "totime">>, <<"updated_on", "updatedon">>,
         <<"action_code", "actioncode">>, <<"external_id", "externalid">> >>,
      relationships |-> <<>>,
      proxies |-> <<>>,
      properties |-> <<>>,
      other |-> {},
      private |-> {"__tablename__"}],
     [name |-> "Allergy", tablename |-> "allergy",
      columns |-> << <<"id", "id">>, <<"pid", "pid">>, <<"creation_date", "creation_date">>, <<"idx", "idx">>,
      <<"allergycode", "allergycode">>, <<"allergycodestd", "allergycodestd">>,
      <<"allergydesc", "allergydesc">>, <<"allergycategorycode", "allergycategorycode">>,
      <<"allergycategorycodestd", "allergycategorycodestd">>,
      <<"allergycategorydesc", "allergycategorydesc">>, <<"severitycode", "severitycode">>,
      <<"severitycodestd", "severitycodestd">>, <<"severitydesc", "severitydesc">>,
      <<"cliniciancode", "cliniciancode">>, <<"cliniciancodestd", "cliniciancodestd">>,
      <<"cliniciandesc", "cliniciandesc">>, <<"discoverytime", "discoverytime">>,
      <<"confirmedtime", "confirmedtime">>, <<"commenttext", "commenttext">>,
      <<"inactivetime", "inactivetime">>, <<"freetextallergy", "freetextallergy">>,
      <<"qualifyingdetails", "qualifyingdetails">>, <<"updatedon", "updatedon">>,
      <<"actioncode", "actioncode">>, <<"externalid", "externalid">>,
      <<"update_date", "update_date">> >>,
      primary_key |-> {"id"},
      foreign_keys |-> {<<"pid", "patientrecord", "pid">>},
      not_nullable |-> { "creation_date" },
      synonyms |-> <<>>,
      relationships |-> <<>>,
      proxies |-> <<>>,
      properties |-> <<>>,
      other |-> {},
      private |-> {"__tablename__"}],
     [name |-> "Diagnosis", tablename |-> "diagnosis",
      columns |-> << <<"id", "id">>, <<"pid", "pid">>, <<"creation_date", "creation_date">>, <<"idx", "idx">>,
      <<"diagnosistype", "diagnosistype">>,
      <<"diagnosingcliniciancode", "diagnosingcliniciancode">>,
      <<"diagnosingcliniciancodestd", "diagnosingcliniciancodestd">>,
      <<"diagnosingcliniciandesc", "diagnosingcliniciandesc">>,
      <<"diagnosiscode", "diagnosiscode">>, <<"diagnosiscodestd", "diagnosiscodestd">>,
      <<"diagnosisdesc", "diagnosisdesc">>, <<"comments", "comments">>,
      <<"identificationtime", "identificationtime">>, <<"onsettime", "onsettime">>,
      <<"enteredon", "enteredon">>, <<"updatedon", "updatedon">>, <<"actioncode", "actioncode">>,
      <<"externalid", "externalid">>, <<"update_date", "update_date">>,
      <<"enteredatcode", "enteredatcode">>, <<"enteredatcodestd", "enteredatcodestd">>,
      <<"enteredatdesc", "enteredatdesc">>, <<"encounternumber", "encounternumber">>,
      <<"verificationstatus", "verificationstatus">> >>,
      primary_key |-> {"id"},
      foreign_keys |-> {<<"pid", "patientrecord", "pid">>},
      not_nullable |-> { "creation_date" },
      synonyms |-> << <<"diagnosis_code", "diagnosiscode">>, <<"diagnosis_code_std", "diagnosiscodestd">>,
         <<"diagnosis_desc", "diagnosisdesc">>, <<"identification_time", "identificationtime">>,
         <<"onset_time", "onsettime">> >>,
      relationships |-> <<>>,
      proxies |-> <<>>,
      properties |-> <<>>,
      other |-> {},
      private |-> {"__tablename__"}],
     [name |-> "RenalDiagnosis", tablename |-> "renaldiagnosis",
      columns |-> << <<"pid", "pid">>, <<"creation_date", "creation_date">>,
      <<"diagnosistype", "diagnosistype">>, <<"diagnosiscode", "diagnosiscode">>,
      <<"diagnosiscodestd", "diagnosiscodestd">>, <<"diagnosisdesc", "diagnosisdesc">>,
      <<"diagnosingcliniciancode", "diagnosingcliniciancode">>,
      <<"diagnosingcliniciancodestd", "diagnosingcliniciancodestd">>,
      <<"diagnosingcliniciandesc", "diagnosingcliniciandesc">>, <<"comments", "comments">>,
      <<"identificationtime", "identificationtime">>, <<"onsettime", "onsettime">>,
      <<"enteredon", "enteredon">>, <<"updatedon", "updatedon">>, <<"actioncode", "actioncode">>,
      <<"externalid", "externalid">>, <<"update_date", "update_date">> >>,
      primary_key |-> {"pid"},
      foreign_keys |-> {<<"pid", "patientrecord", "pid">>},
      not_nullable |-> { "creation_date" },
      synonyms |-> << <<"id", "pid">>, <<"diagnosis_code", "diagnosiscode">>,
         <<"diagnosis_code_std", "diagnosiscodestd">>, <<"diagnosis_desc", "diagnosisdesc">>,
         <<"identification_time", "identificationtime">> >>,
      relationships |-> <<>>,
      proxies |-> <<>>,
      properties |-> <<>>,
      other |-> {},
      private |-> {"__tablename__"}],
     [name |-> "DialysisSession", tablename |-> "dialysissession",
      columns |-> << <<"id", "id">>, <<"pid", "pid">>, <<"creation_date", "creation_date">>, <<"idx", "idx">>,
      <<"proceduretypecode", "proceduretypecode">>,
      <<"proceduretypecodestd", "proceduretypecodestd">>,
      <<"proceduretypedesc", "proceduretypedesc">>, <<"cliniciancode", "cliniciancode">>,
      <<"cliniciancodestd", "cliniciancodestd">>, <<"cliniciandesc", "cliniciandesc">>,
      <<"proceduretime", "proceduretime">>, <<"enteredbycode", "enteredbycode">>,
      <<"enteredbycodestd", "enteredbycodestd">>, <<"enteredbydesc", "enteredbydesc">>,
      <<"enteredatcode", "enteredatcode">>, <<"enteredatcodestd", "enteredatcodestd">>,
      <<"enteredatdesc", "enteredatdesc">>, <<"qhd19", "qhd19">>, <<"qhd20", "qhd20">>,
      <<"qhd21", "qhd21">>, <<"qhd22", "qhd22">>, <<"qhd30", "qhd30">>, <<"qhd31", "qhd31">>,
      <<"qhd32", "qhd32">>, <<"qhd33", "qhd33">>, <<"updatedon", "updatedon">>,
      <<"actioncode", "actioncode">>, <<"externalid", "externalid">>,
      <<"update_date", "update_date">> >>,
      primary_key |-> {"id"},
      foreign_keys |-> {<<"pid", "patientrecord", "pid">>},
      not_nullable |-> { "creation_date" },
      synonyms |-> << <<"procedure_type_code", "proceduretypecode">>,
         <<"procedure_type_code_std", "proceduretypecodestd">>,
         <<"procedure_type_desc", "proceduretypedesc">>, <<"procedure_time", "proceduretime">> >>,
      relationships |-> <<>>,
      proxies |-> <<>>,
      properties |-> <<>>,
      other |-> {},
      private |-> {"__tablename__"}],
     [name |-> "Transplant", tablename |-> "transplant",
      columns |-> << <<"id", "id">>, <<"pid", "pid">>, <<"creation_date", "creation_date">>, <<"idx", "idx">>,
      <<"proceduretypecode", "proceduretypecode">>,
      <<"proceduretypecodestd", "proceduretypecodestd">>,
      <<"proceduretypedesc", "proceduretypedesc">>, <<"cliniciancode", "cliniciancode">>,
      <<"cliniciancodestd", "cliniciancodestd">>, <<"cliniciandesc", "cliniciandesc">>,
      <<"proceduretime", "proceduretime">>, <<"enteredbycode", "enteredbycode">>,
      <<"enteredbycodestd", "enteredbycodestd">>, <<"enteredbydesc", "enteredbydesc">>,
      <<"enteredatcode", "enteredatcode">>, <<"enteredatcodestd", "enteredatcodestd">>,
      <<"enteredatdesc", "enteredatdesc">>, <<"updatedon", "updatedon">>,
      <<"actioncode", "actioncode">>, <<"externalid", "externalid">>, <<"tra64", "tra64">>,
      <<"tra65", "tra65">>, <<"tra66", "tra66">>, <<"tra69", "tra69">>, <<"tra76", "tra76">>,
      <<"tra77", "tra77">>, <<"tra78", "tra78">>, <<"tra79", "tra79">>, <<"tra80", "tra80">>,
      <<"tra8a", "tra8a">>, <<"tra81", "tra81">>, <<"tra82", "tra82">>, <<"tra83", "tra83">>,
      <<"tra84", "tra84">>, <<"tra85", "tra85">>, <<"tra86", "tra86">>, <<"tra87", "tra87">>,
      <<"tra88", "tra88">>, <<"tra89", "tra89">>, <<"tra90", "tra90">>, <<"tra91", "tra91">>,
      <<"tra92", "tra92">>, <<"tra93", "tra93">>, <<"tra94", "tra94">>, <<"tra95", "tra95">>,
      <<"tra96", "tra96">>, <<"tra97", "tra97">>, <<"tra98", "tra98">>,
      <<"update_date", "update_date">> >>,
      primary_key |-> {"id"},
      foreign_keys |-> {<<"pid", "patientrecord", "pid">>},
      not_nullable |-> { "creation_date" },
      synonyms |-> << <<"procedure_type_code", "proceduretypecode">>,
         <<"procedure_type_code_std", "proceduretypecodestd">>,
         <<"procedure_type_desc", "proceduretypedesc">>, <<"procedure_time", "proceduretime">> >>,
      relationships |-> <<>>,
      proxies |-> <<>>,
      properties |-> <<>>,
      other |-> {},
      private |-> {"__tablename__"}],
     [name |-> "VascularAccess", tablename |-> "vascularaccess",
      columns |-> << <<"id", "id">>, <<"pid", "pid">>, <<"idx", "idx">>, <<"creation_date", "creation_date">>,
      <<"proceduretypecode", "proceduretypecode">>,
      <<"proceduretypecodestd", "proceduretypecodestd">>,
      <<"proceduretypedesc", "proceduretypedesc">>, <<"cliniciancode", "cliniciancode">>,
      <<"cliniciancodestd", "cliniciancodestd">>, <<"cliniciandesc", "cliniciandesc">>,
      <<"proceduretime", "proceduretime">>, <<"enteredbycode", "enteredbycode">>,
      <<"enteredbycodestd", "enteredbycodestd">>, <<"enteredbydesc", "enteredbydesc">>,
      <<"enteredatcode", "enteredatcode">>, <<"enteredatcodestd", "enteredatcodestd">>,
      <<"enteredatdesc", "enteredatdesc">>, <<"updatedon", "updatedon">>,
      <<"actioncode", "actioncode">>, <<"externalid", "externalid">>, <<"acc19", "acc19">>,
      <<"acc20", "acc20">>, <<"acc21", "acc21">>, <<"acc22", "acc22">>, <<"acc30", "acc30">>,
      <<"acc40", "acc40">>, <<"update_date", "update_date">> >>,
      primary_key |-> {"id"},
      foreign_keys |-> {<<"pid", "patientrecord", "pid">>},
      not_nullable |-> { "creation_date" },
      synonyms |-> <<>>,
      relationships |-> <<>>,
      proxies |-> <<>>,
      properties |-> <<>>,
      other |-> {},
      private |-> {"__tablename__"}],
     [name |-> "Procedure", tablename |-> "procedure",
      columns |-> << <<"id", "id">>, <<"pid", "pid">>, <<"creation_date", "creation_date">>, <<"idx", "idx">>,
      <<"proceduretypecode", "proceduretypecode">>,
      <<"proceduretypecodestd", "proceduretypecodestd">>,
      <<"proceduretypedesc", "proceduretypedesc">>, <<"cliniciancode", "cliniciancode">>,
      <<"cliniciancodestd", "cliniciancodestd">>, <<"cliniciandesc", "cliniciandesc">>,
      <<"proceduretime", "proceduretime">>, <<"enteredbycode", "enteredbycode">>,
      <<"enteredbycodestd", "enteredbycodestd">>, <<"enteredbydesc", "enteredbydesc">>,
      <<"enteredatcode", "enteredatcode">>, <<"enteredatcodestd", "enteredatcodestd">>,
      <<"enteredatdesc", "enteredatdesc">>, <<"updatedon", "updatedon">>,
      <<"actioncode", "actioncode">>, <<"externalid", "externalid">>,
      <<"update_date", "update_date">> >>,
      primary_key |-> {"id"},
      foreign_keys |-> {<<"pid", "patientrecord", "pid">>},
      not_nullable |-> { "creation_date" },
      synonyms |-> <<>>,
      relationships |-> <<>>,
      proxies |-> <<>>,
      properties |-> <<>>,
      other |-> {},
      private |-> {"__tablename__"}],
     [name |-> "Encounter", tablename |-> "encounter",
      columns |-> << <<"id", "id">>, <<"pid", "pid">>, <<"creation_date", "creation_date">>, <<"idx", "idx">>,
      <<"encounternumber", "encounternumber">>, <<"encountertype", "encountertype">>,
      <<"fromtime", "fromtime">>, <<"totime", "totime">>,
      <<"admittingcliniciancode", "admittingcliniciancode">>,
      <<"admittingcliniciancodestd", "admittingcliniciancodestd">>,
      <<"admittingcliniciandesc", "admittingcliniciandesc">>,
      <<"admitreasoncode", "admitreasoncode">>, <<"admitreasoncodestd", "admitreasoncodestd">>,
      <<"admitreasondesc", "admitreasondesc">>, <<"admissionsourcecode", "admissionsourcecode">>,
      <<"admissionsourcecodestd", "admissionsourcecodestd">>,
      <<"admissionsourcedesc", "admissionsourcedesc">>,
      <<"dischargereasoncode", "dischargereasoncode">>,
      <<"dischargereasoncodestd", "dischargereasoncodestd">>,
      <<"dischargereasondesc", "dischargereasondesc">>,
      <<"dischargelocationcode", "dischargelocationcode">>,
      <<"dischargelocationcodestd", "dischargelocationcodestd">>,
      <<"dischargelocationdesc", "dischargelocationdesc">>,
      <<"healthcarefacilitycode", "healthcarefacilitycode">>,
      <<"healthcarefacilitycodestd", "healthcarefacilitycodestd">>,
      <<"healthcarefacilitydesc", "healthcarefacilitydesc">>,
      <<"enteredatcode", "enteredatcode">>, <<"enteredatcodestd", "enteredatcodestd">>,
      <<"enteredatdesc", "enteredatdesc">>, <<"visitdescription", "visitdescription">>,
      <<"updatedon", "updatedon">>, <<"actioncode", "actioncode">>,
      <<"externalid", "externalid">>, <<"update_date", "update_date">> >>,
      primary_key |-> {"id"},
      foreign_keys |-> {<<"pid", "patientrecord", "pid">>},
      not_nullable |-> { "creation_date" },
      synonyms |-> << <<"from_time", "fromtime">>, <<"to_time", "totime">> >>,
      relationships |-> <<>>,
      proxies |-> <<>>,
      properties |-> <<>>,
      other |-> {},
      private |-> {"__tablename__"}],
     [name |-> "ProgramMembership", tablename |-> "programmembership",
      columns |-> << <<"id", "id">>, <<"pid", "pid">>, <<"creation_date", "creation_date">>,
      <<"programname", "programname">>, <<"programdescription", "programdescription">>,
      <<"enteredbycode", "enteredbycode">>, <<"enteredbycodestd", "enteredbycodestd">>,
      <<"enteredbydesc", "enteredbydesc">>, <<"enteredatcode", "enteredatcode">>,
      <<"enteredatcodestd", "enteredatcodestd">>, <<"enteredatdesc", "enteredatdesc">>,
      <<"fromtime", "fromtime">>, <<"totime", "totime">>, <<"updatedon", "updatedon">>,
      <<"actioncode", "actioncode">>, <<"externalid", "externalid">>,
      <<"update_date", "update_date">> >>,
      primary_key |-> {"id"},
      foreign_keys |-> {<<"pid", "patientrecord", "pid">>},
      not_nullable |-> { "creation_date" },
      synonyms |-> << <<"program_name", "programname">>, <<"from_time", "fromtime">>, <<"to_time", "totime">> >>,
      relationships |-> <<>>,
      proxies |-> <<>>,
      properties |-> <<>>,
      other |-> {},
      private |-> {"__tablename__", "__str__"}],
     [name |-> "ClinicalRelationship", tablename |-> "clinicalrelationship",
      columns |-> << <<"id", "id">>, <<"pid", "pid">>, <<"creation_date", "creation_date">>, <<"idx", "idx">>,
      <<"cliniciancode", "cliniciancode">>, <<"cliniciancodestd", "cliniciancodestd">>,
      <<"cliniciandesc", "cliniciandesc">>, <<"facilitycode", "facilitycode">>,
      <<"facilitycodestd", "facilitycodestd">>, <<"facilitydesc", "facilitydesc">>,
      <<"fromtime", "fromtime">>, <<"totime", "totime">>, <<"updatedon", "updatedon">>,
      <<"actioncode", "actioncode">>, <<"externalid", "externalid">>,
      <<"update_date", "update_date">> >>,
      primary_key |-> {"id"},
      foreign_keys |-> {<<"pid", "patientrecord", "pid">>},
      not_nullable |-> { "creation_date" },
      synonyms |-> <<>>,
      relationships |-> <<>>,
      proxies |-> <<>>,
      properties |-> <<>>,
      other |-> {},
      private |-> {"__tablename__"}],
     [name |-> "Name", tablename |-> "name",
      columns |-> << <<"id", "id">>, <<"pid", "pid">>, <<"creation_date", "creation_date">>, <<"idx", "idx">>,
      <<"nameuse", "nameuse">>, <<"prefix", "prefix">>, <<"family", "family">>,
      <<"given", "given">>, <<"othergivennames", "othergivennames">>, <<"suffix", "suffix">>,
      <<"update_date", "update_date">> >>,
      primary_key |-> {"id"},
      foreign_keys |-> {<<"pid", "patient", "pid">>},
      not_nullable |-> { "creation_date" },
      synonyms |-> <<>>,
      relationships |-> <<>>,
      proxies |-> <<>>,
      properties |-> <<>>,
      other |-> {},
      private |-> {"__tablename__", "__str__"}],
     [name |-> "PatientNumber", tablename |-> "patientnumber",
      columns |-> << <<"id", "id">>, <<"pid", "pid">>, <<"creation_date", "creation_date">>, <<"idx", "idx">>,
      <<"patientid", "patientid">>, <<"numbertype", "numbertype">>,
      <<"organization", "organization">>, <<"updatedon", "updatedon">>,
      <<"actioncode", "actioncode">>, <<"externalid", "externalid">>,
      <<"update_date", "update_date">> >>,
      primary_key |-> {"id"},
      foreign_keys |-> {<<"pid", "patient", "pid">>},
      not_nullable |-> { "creation_date" },
      synonyms |-> <<>>,
      relationships |-> <<>>,
      proxies |-> <<>>,
      properties |-> <<>>,
      other |-> {},
      private |-> {"__tablename__", "__str__"}],
     [name |-> "Address", tablename |-> "address",
      columns |-> << <<"id", "id">>, <<"pid", "pid">>, <<"creation_date", "creation_date">>, <<"idx", "idx">>,
      <<"addressuse", "addressuse">>, <<"fromtime", "fromtime">>, <<"totime", "totime">>,
      <<"street", "street">>, <<"town", "town">>, <<"county", "county">>,
      <<"postcode", "postcode">>, <<"countrycode", "countrycode">>,
      <<"countrycodestd", "countrycodestd">>, <<"countrydesc", "countrydesc">>,
      <<"update_date", "update_date">> >>,
      primary_key |-> {"id"},
      foreign_keys |-> {<<"pid", "patient", "pid">>},
      not_nullable |-> { "creation_date" },
      synonyms |-> << <<"from_time", "fromtime">>, <<"to_time", "totime">>, <<"country_code", "countrycode">>,
         <<"country_code_std", "countrycodestd">>, <<"country_description", "countrydesc">> >>,
      relationships |-> <<>>,
      proxies |-> <<>>,
      properties |-> <<>>,
      other |-> {},
      private |-> {"__tablename__", "__str__"}],
     [name |-> "ContactDetail", tablename |-> "contactdetail",
      columns |-> << <<"id", "id">>, <<"pid", "pid">>, <<"creation_date", "creation_date">>, <<"idx", "idx">>,
      <<"contactuse", "contactuse">>, <<"contactvalue", "contactvalue">>,
      <<"commenttext", "commenttext">>, <<"updatedon", "updatedon">>,
      <<"actioncode", "actioncode">>, <<"externalid", "externalid">>,
      <<"update_date", "update_date">> >>,
      primary_key |-> {"id"},
      foreign_keys |-> {<<"pid", "patient", "pid">>},
      not_nullable |-> { "creation_date" },
      synonyms |-> << <<"use", "contactuse">>, <<"value", "contactvalue">> >>,
      relationships |-> <<>>,
      proxies |-> <<>>,
      properties |-> <<>>,
      other |-> {},
      private |-> {"__tablename__", "__str__"}],
     [name |-> "Medication", tablename |-> "medication",
      columns |-> << <<"id", "id">>, <<"pid", "pid">>, <<"creation_date", "creation_date">>, <<"idx", "idx">>,
      <<"repositoryupdatedate", "repositoryupdatedate">>,
      <<"prescriptionnumber", "prescriptionnumber">>, <<"fromtime", "fromtime">>,
      <<"totime", "totime">>, <<"orderedbycode", "orderedbycode">>,
      <<"orderedbycodestd", "orderedbycodestd">>, <<"orderedbydesc", "orderedbydesc">>,
      <<"enteringorganizationcode", "enteringorganizationcode">>,
      <<"enteringorganizationcodestd", "enteringorganizationcodestd">>,
      <<"enteringorganizationdesc", "enteringorganizationdesc">>, <<"routecode", "routecode">>,
      <<"routecodestd", "routecodestd">>, <<"routedesc", "routedesc">>,
      <<"drugproductidcode", "drugproductidcode">>,
      <<"drugproductidcodestd", "drugproductidcodestd">>,
      <<"drugproductiddesc", "drugproductiddesc">>,
      <<"drugproductgeneric", "drugproductgeneric">>,
      <<"drugproductlabelname", "drugproductlabelname">>,
      <<"drugproductformcode", "drugproductformcode">>,
      <<"drugproductformcodestd", "drugproductformcodestd">>,
      <<"drugproductformdesc", "drugproductformdesc">>,
      <<"drugproductstrengthunitscode", "drugproductstrengthunitscode">>,
      <<"drugproductstrengthunitscodestd", "drugproductstrengthunitscodestd">>,
      <<"drugproductstrengthunitsdesc", "drugproductstrengthunitsdesc">>,
      <<"frequency", "frequency">>, <<"commenttext", "commenttext">>,
      <<"dosequantity", "dosequantity">>, <<"doseuomcode", "doseuomcode">>,
      <<"doseuomcodestd", "doseuomcodestd">>, <<"doseuomdesc", "doseuomdesc">>,
      <<"indication", "indication">>, <<"updatedon", "updatedon">>,
      <<"actioncode", "actioncode">>, <<"externalid", "externalid">>,
      <<"update_date", "update_date">>, <<"encounternumber", "encounternumber">> >>,
      primary_key |-> {"id"},
      foreign_keys |-> {<<"pid", "patientrecord", "pid">>},
      not_nullable |-> { "creation_date", "repositoryupdatedate" },
      synonyms |-> << <<"repository_update_date", "repositoryupdatedate">>, <<"from_time", "fromtime">>,
         <<"to_time", "totime">>, <<"entering_organization_code", "enteringorganizationcode">>,
         <<"entering_organization_description", "enteringorganizationdesc">>,
         <<"route_code", "routecode">>, <<"route_code_std", "routecodestd">>,
         <<"route_desc", "routedesc">>, <<"drug_product_id_code", "drugproductidcode">>,
         <<"drug_product_id_description", "drugproductiddesc">>,
         <<"drug_product_generic", "drugproductgeneric">>, <<"comment", "commenttext">>,
         <<"dose_quantity", "dosequantity">>, <<"dose_uom_code", "doseuomcode">>,
         <<"dose_uom_code_std", "doseuomcodestd">>, <<"dose_uom_description", "doseuomdesc">>,
         <<"updated_on", "updatedon">>, <<"external_id", "externalid">> >>,
      relationships |-> <<>>,
      proxies |-> <<>>,
      properties |-> <<>>,
      other |-> {},
      private |-> {"__tablename__", "__str__"}],
     [name |-> "Survey", tablename |-> "survey",
      columns |-> << <<"id", "id">>, <<"pid", "pid">>, <<"creation_date", "creation_date">>,
      <<"surveytime", "surveytime">>, <<"surveytypecode", "surveytypecode">>,
      <<"surveytypecodestd", "surveytypecodestd">>, <<"surveytypedesc", "surveytypedesc">>,
      <<"typeoftreatment", "typeoftreatment">>, <<"hdlocation", "hdlocation">>,
      <<"template", "template">>, <<"enteredbycode", "enteredbycode">>,
      <<"enteredbycodestd", "enteredbycodestd">>, <<"enteredbydesc", "enteredbydesc">>,
      <<"enteredatcode", "enteredatcode">>, <<"enteredatcodestd", "enteredatcodestd">>,
      <<"enteredatdesc", "enteredatdesc">>, <<"updatedon", "updatedon">>,
      <<"actioncode", "actioncode">>, <<"externalid", "externalid">>,
      <<"update_date", "update_date">> >>,
      primary_key |-> {"id"},
      foreign_keys |-> {<<"pid", "patientrecord", "pid">>},
      not_nullable |-> { "creation_date", "surveytime" },
      synonyms |-> <<>>,
      relationships |-> << [key |-> "questions", argument |-> "Question", cascade |-> {"all", "delete-orphan"}, backref |-> "", back_populates |-> "", uselist |-> "default", viewonly |-> FALSE,
      foreign_keys |-> "", secondary |-> "", primaryjoin |-> <<>>],
     [key |-> "scores", argument |-> "Score", cascade |-> {"all", "delete-orphan"}, backref |-> "", back_populates |-> "", uselist |-> "default", viewonly |-> FALSE,
      foreign_keys |-> "", secondary |-> "", primaryjoin |-> <<>>],
     [key |-> "levels", argument |-> "Level", cascade |-> {"all", "delete-orphan"}, backref |-> "", back_populates |-> "", uselist |-> "default", viewonly |-> FALSE,
      foreign_keys |-> "", secondary |-> "", primaryjoin |-> <<>>] >>,
      proxies |-> <<>>,
      properties |-> <<>>,
      other |-> {},
      private |-> {"__tablename__", "__str__"}],
     [name |-> "Question", tablename |-> "question",
      columns |-> << <<"id", "id">>, <<"surveyid", "surveyid">>, <<"creation_date", "creation_date">>,
      <<"idx", "idx">>, <<"questiontypecode", "questiontypecode">>,
      <<"questiontypecodestd", "questiontypecodestd">>,
      <<"questiontypedesc", "questiontypedesc">>, <<"response", "response">>,
      <<"questiontext", "questiontext">>, <<"update_date", "update_date">> >>,
      primary_key |-> {"id"},
      foreign_keys |-> {<<"surveyid", "survey", "id">>},
      not_nullable |-> { "creation_date" },
      synonyms |-> <<>>,
      relationships |-> <<>>,
      proxies |-> <<>>,
      properties |-> <<>>,
      other |-> {},
      private |-> {"__tablename__"}],
     [name |-> "Score", tablename |-> "score",
      columns |-> << <<"id", "id">>, <<"surveyid", "surveyid">>, <<"creation_date", "creation_date">>,
      <<"idx", "idx">>, <<"scorevalue", "scorevalue">>, <<"scoretypecode", "scoretypecode">>,
      <<"scoretypecodestd", "scoretypecodestd">>, <<"scoretypedesc", "scoretypedesc">>,
      <<"update_date", "update_date">> >>,
      primary_key |-> {"id"},
      foreign_keys |-> {<<"surveyid", "survey", "id">>},
      not_nullable |-> { "creation_date" },
      synonyms |-> << <<"value", "scorevalue">> >>,
      relationships |-> <<>>,
      proxies |-> <<>>,
      properties |-> <<>>,
      other |-> {},
      private |-> {"__tablename__"}],
     [name |-> "Level", tablename |-> "level",
      columns |-> << <<"id", "id">>, <<"surveyid", "surveyid">>, <<"creation_date", "creation_date">>,
      <<"idx", "idx">>, <<"levelvalue", "levelvalue">>, <<"leveltypecode", "leveltypecode">>,
      <<"leveltypecodestd", "leveltypecodestd">>, <<"leveltypedesc", "leveltypedesc">>,
      <<"update_date", "update_date">> >>,
      primary_key |-> {"id"},
      foreign_keys |-> {<<"surveyid", "survey", "id">>},
      not_nullable |-> { "creation_date" },
      synonyms |-> << <<"value", "levelvalue">> >>,
      relationships |-> <<>>,
      proxies |-> <<>>,
      properties |-> <<>>,
      other |-> {},
      private |-> {"__tablename__"}],
     [name |-> "Document", tablename |-> "document",
      columns |-> << <<"id", "id">>, <<"pid", "pid">>, <<"repositoryupdatedate", "repositoryupdatedate">>,
      <<"creation_date", "creation_date">>, <<"idx", "idx">>, <<"documenttime", "documenttime">>,
      <<"notetext", "notetext">>, <<"documenttypecode", "documenttypecode">>,
      <<"documenttypecodestd", "documenttypecodestd">>,
      <<"documenttypedesc", "documenttypedesc">>, <<"cliniciancode", "cliniciancode">>,
      <<"cliniciancodestd", "cliniciancodestd">>, <<"cliniciandesc", "cliniciandesc">>,
      <<"documentname", "documentname">>, <<"statuscode", "statuscode">>,
      <<"statuscodestd", "statuscodestd">>, <<"statusdesc", "statusdesc">>,
      <<"enteredbycode", "enteredbycode">>, <<"enteredbycodestd", "enteredbycodestd">>,
      <<"enteredbydesc", "enteredbydesc">>, <<"enteredatcode", "enteredatcode">>,
      <<"enteredatcodestd", "enteredatcodestd">>, <<"enteredatdesc", "enteredatdesc">>,
      <<"filetype", "filetype">>, <<"filename", "filename">>, <<"stream", "stream">>,
      <<"documenturl", "documenturl">>, <<"updatedon", "updatedon">>,
      <<"actioncode", "actioncode">>, <<"externalid", "externalid">>,
      <<"update_date", "update_date">> >>,
      primary_key |-> {"id"},
      foreign_keys |-> {<<"pid", "patientrecord", "pid">>},
      not_nullable |-> { "repositoryupdatedate", "creation_date" },
      synonyms |-> << <<"repository_update_date", "repositoryupdatedate">> >>,
      relationships |-> <<>>,
      proxies |-> <<>>,
      properties |-> <<>>,
      other |-> {},
      private |-> {"__tablename__"}],
     [name |-> "LabOrder", tablename |-> "laborder",
      columns |-> << <<"id", "id">>, <<"pid", "pid">>, <<"creation_date", "creation_date">>,
      <<"placerid", "placerid">>, <<"fillerid", "fillerid">>,
      <<"receivinglocationcode", "receivinglocationcode">>,
      <<"receivinglocationcodestd", "receivinglocationcodestd">>,
      <<"receivinglocationdesc", "receivinglocationdesc">>, <<"orderedbycode", "orderedbycode">>,
      <<"orderedbycodestd", "orderedbycodestd">>, <<"orderedbydesc", "orderedbydesc">>,
      <<"orderitemcode", "orderitemcode">>, <<"orderitemcodestd", "orderitemcodestd">>,
      <<"orderitemdesc", "orderitemdesc">>, <<"prioritycode", "prioritycode">>,
      <<"prioritycodestd", "prioritycodestd">>, <<"prioritydesc", "prioritydesc">>,
      <<"status", "status">>, <<"ordercategorycode", "ordercategorycode">>,
      <<"ordercategorycodestd", "ordercategorycodestd">>,
      <<"ordercategorydesc", "ordercategorydesc">>, <<"specimensource", "specimensource">>,
      <<"specimenreceivedtime", "specimenreceivedtime">>,
      <<"specimencollectedtime", "specimencollectedtime">>, <<"duration", "duration">>,
      <<"patientclasscode", "patientclasscode">>,
      <<"patientclasscodestd", "patientclasscodestd">>,
      <<"patientclassdesc", "patientclassdesc">>, <<"enteredon", "enteredon">>,
      <<"enteredatcode", "enteredatcode">>, <<"enteredatcodestd", "enteredatcodestd">>,
      <<"enteredatdesc", "enteredatdesc">>,
      <<"enteringorganizationcode", "enteringorganizationcode">>,
      <<"enteringorganizationcodestd", "enteringorganizationcodestd">>,
      <<"enteringorganizationdesc", "enteringorganizationdesc">>, <<"updatedon", "updatedon">>,
      <<"actioncode", "actioncode">>, <<"externalid", "externalid">>,
      <<"update_date", "update_date">>, <<"repository_update_date", "repository_update_date">> >>,
      primary_key |-> {"id"},
      foreign_keys |-> {<<"pid", "patientrecord", "pid">>},
      not_nullable |-> { "creation_date" },
      synonyms |-> << <<"receiving_location", "receivinglocationcode">>,
         <<"receiving_location_description", "receivinglocationdesc">>,
         <<"receiving_location_code_std", "receivinglocationcodestd">>, <<"placer_id", "placerid">>,
         <<"filler_id", "fillerid">>, <<"ordered_by", "orderedbycode">>,
         <<"ordered_by_description", "orderedbydesc">>,
         <<"ordered_by_code_std", "orderedbycodestd">>, <<"order_item", "orderitemcode">>,
         <<"order_item_description", "orderitemdesc">>,
         <<"order_item_code_std", "orderitemcodestd">>, <<"order_category", "ordercategorycode">>,
         <<"order_category_description", "ordercategorydesc">>,
         <<"order_category_code_std", "ordercategorycodestd">>,
         <<"specimen_collected_time", "specimencollectedtime">>,
         <<"specimen_received_time", "specimenreceivedtime">>, <<"priority", "prioritycode">>,
         <<"priority_description", "prioritydesc">>, <<"priority_code_std", "prioritycodestd">>,
         <<"specimen_source", "specimensource">>, <<"patient_class", "patientclasscode">>,
         <<"patient_class_description", "patientclassdesc">>,
         <<"patient_class_code_std", "patientclasscodestd">>, <<"entered_on", "enteredon">>,
         <<"entered_at", "enteredatcode">>, <<"entered_at_description", "enteredatdesc">>,
         <<"external_id", "externalid">>,
         <<"entering_organization_code", "enteringorganizationcode">>,
         <<"entering_organization_description", "enteringorganizationdesc">>,
         <<"entering_organization_code_std", "enteringorganizationcodestd">> >>,
      relationships |-> ukrdc_LabOrder_relationships,
      proxies |-> <<>>,
      properties |-> <<>>,
      other |-> {},
      private |-> {"__tablename__"}],
     ukrdc_ResultItem,
     ukrdc_PVData,
     [name |-> "PVDelete", tablename |-> "pvdelete",
      columns |-> << <<"did", "did">>, <<"pid", "pid">>, <<"creation_date", "creation_date">>,
      <<"observationtime", "observationtime">>, <<"serviceidcode", "serviceidcode">>,
      <<"update_date", "update_date">> >>,
      primary_key |-> {"did"},
      foreign_keys |-> {<<"pid", "patientrecord", "pid">>},
      not_nullable |-> { "creation_date" },
      synonyms |-> << <<"observation_time", "observationtime">>, <<"service_id", "serviceidcode">> >>,
      relationships |-> <<>>,
      proxies |-> <<>>,
      properties |-> <<>>,
      other |-> {},
      private |-> {"__tablename__"}],
     ukrdc_Treatment,
     [name |-> "TransplantList", tablename |-> "transplantlist",
      columns |-> << <<"id", "id">>, <<"pid", "pid">>, <<"idx", "idx">>, <<"creation_date", "creation_date">>,
      <<"encounternumber", "encounternumber">>, <<"encountertype", "encountertype">>,
      <<"fromtime", "fromtime">>, <<"totime", "totime">>,
      <<"admittingcliniciancode", "admittingcliniciancode">>,
      <<"admittingcliniciancodestd", "admittingcliniciancodestd">>,
      <<"admittingcliniciandesc", "admittingcliniciandesc">>,
      <<"admitreasoncode", "admitreasoncode">>, <<"admitreasoncodestd", "admitreasoncodestd">>,
      <<"admitreasondesc", "admitreasondesc">>, <<"admissionsourcecode", "admissionsourcecode">>,
      <<"admissionsourcecodestd", "admissionsourcecodestd">>,
      <<"admissionsourcedesc", "admissionsourcedesc">>,
      <<"dischargereasoncode", "dischargereasoncode">>,
      <<"dischargereasoncodestd", "dischargereasoncodestd">>,
      <<"dischargereasondesc", "dischargereasondesc">>,
      <<"dischargelocationcode", "dischargelocationcode">>,
      <<"dischargelocationcodestd", "dischargelocationcodestd">>,
      <<"dischargelocationdesc", "dischargelocationdesc">>,
      <<"healthcarefacilitycode", "healthcarefacilitycode">>,
      <<"healthcarefacilitycodestd", "healthcarefacilitycodestd">>,
      <<"healthcarefacilitydesc", "healthcarefacilitydesc">>,
      <<"enteredatcode", "enteredatcode">>, <<"enteredatcodestd", "enteredatcodestd">>,
      <<"enteredatdesc", "enteredatdesc">>, <<"visitdescription", "visitdescription">>,
      <<"updatedon", "updatedon">>, <<"actioncode", "actioncode">>,
      <<"externalid", "externalid">>, <<"update_date", "update_date">> >>,
      primary_key |-> {"id"},
      foreign_keys |-> {<<"pid", "patientrecord", "pid">>},
      not_nullable |-> { "creation_date" },
      synonyms |-> <<>>,
      relationships |-> <<>>,
      proxies |-> <<>>,
      properties |-> <<>>,
      other |-> {},
      private |-> {"__tablename__"}],
     ukrdc_Code,
     [name |-> "CodeExclusion", tablename |-> "code_exclusion",
      columns |-> << <<"coding_standard", "coding_standard">>, <<"code", "code">>, <<"system", "system">> >>,
      primary_key |-> {"coding_standard", "code", "system"},
      foreign_keys |-> {},
      not_nullable |-> {},
      synonyms |-> <<>>,
      relationships |-> <<>>,
      proxies |-> <<>>,
      properties |-> <<>>,
      other |-> {},
      private |-> {"__tablename__"}],
     [name |-> "CodeMap", tablename |-> "code_map",
      columns |-> << <<"source_coding_standard", "source_coding_standard">>, <<"source_code", "source_code">>,
      <<"destination_coding_standard", "destination_coding_standard">>,
      <<"destination_code", "destination_code">>, <<"creation_date", "creation_date">>,
      <<"update_date", "update_date">> >>,
      primary_key |-> {"source_coding_standard", "source_code", "destination_coding_standard", "destination_code"},
      foreign_keys |-> {},
      not_nullable |-> { "creation_date" },
      synonyms |-> <<>>,
      relationships |-> <<>>,
      proxies |-> <<>>,
      properties |-> <<>>,
      other |-> {},
      private |-> {"__tablename__"}],
     [name |-> "Facility", tablename |-> "facility",
      columns |-> << <<"code", "code">>, <<"creation_date", "creation_date">>, <<"pkb_out", "pkb_out">>,
      <<"pkb_in", "pkb_in">>, <<"pkb_msg_exclusions", "pkb_msg_exclusions">>,
      <<"update_date", "update_date">> >>,
      primary_key |-> {"code"},
      foreign_keys |-> {},
      not_nullable |-> { "creation_date" },
      synonyms |-> <<>>,
      relationships |-> ukrdc_Facility_relationships,
      proxies |-> << <<"description", "code_info", "description">> >>,
      properties |-> <<>>,
      other |-> {},
      private |-> {"__tablename__"}],
     [name |-> "RRCodes", tablename |-> "rr_codes",
      columns |-> << <<"id", "id">>, <<"rr_code", "rr_code">>, <<"description_1", "description_1">>,
      <<"description_2", "description_2">>, <<"description_3", "description_3">>,
      <<"old_value", "old_value">>, <<"old_value_2", "old_value_2">>,
      <<"new_value", "new_value">> >>,
      primary_key |-> {"id", "rr_code"},
      foreign_keys |-> {},
      not_nullable |-> {},
      synonyms |-> <<>>,
      relationships |-> <<>>,
      proxies |-> <<>>,
      properties |-> <<>>,
      other |-> {},
      private |-> {"__tablename__"}],
     [name |-> "Locations", tablename |-> "locations",
      columns |-> << <<"centre_code", "centre_code">>, <<"centre_name", "centre_name">>,
      <<"country_code", "country_code">>, <<"region_code", "region_code">>,
      <<"paed_unit", "paed_unit">> >>,
      primary_key |-> {"centre_code"},
      foreign_keys |-> {},
      not_nullable |-> {},
      synonyms |-> <<>>,
      relationships |-> <<>>,
      proxies |-> <<>>,
      properties |-> <<>>,
      other |-> {},
      private |-> {"__tablename__"}],
     [name |-> "RRDataDefinition", tablename |-> "rr_data_definition",
      columns |-> << <<"upload_key", "upload_key">>, <<"table_name", "TABLE_NAME">>,
      <<"feild_name", "feild_name">>, <<"code_id", "code_id">>, <<"mandatory", "mandatory">>,
      <<"type", "TYPE">>, <<"alt_constraint", "alt_constraint">>, <<"alt_desc", "alt_desc">>,
      <<"extra_val", "extra_val">>, <<"error_type", "error_type">>, <<"paed_mand", "paed_mand">>,
      <<"ckd5_mand_numeric", "ckd5_mand">>, <<"dependant_field", "dependant_field">>,
      <<"alt_validation", "alt_validation">>, <<"file_prefix", "file_prefix">>,
      <<"load_min", "load_min">>, <<"load_max", "load_max">>, <<"remove_min", "remove_min">>,
      <<"remove_max", "remove_max">>, <<"in_month", "in_month">>, <<"aki_mand", "aki_mand">>,
      <<"rrt_mand", "rrt_mand">>, <<"cons_mand", "cons_mand">>, <<"ckd4_mand", "ckd4_mand">>,
      <<"valid_before_dob", "valid_before_dob">>, <<"valid_after_dod", "valid_after_dod">>,
      <<"in_quarter", "in_quarter">> >>,
      primary_key |-> {"upload_key"},
      foreign_keys |-> {},
      not_nullable |-> { "table_name", "feild_name" },
      synonyms |-> << <<"code_type", "type">> >>,
      relationships |-> <<>>,
      proxies |-> <<>>,
      properties |-> <<>>,
      other |-> {},
      private |-> {"__tablename__"}],
     [name |-> "ModalityCodes", tablename |-> "modality_codes",
      columns |-> << <<"registry_code", "registry_code">>, <<"registry_code_desc", "registry_code_desc">>,
      <<"registry_code_type", "registry_code_type">>, <<"acute", "acute">>,
      <<"transfer_in", "transfer_in">>, <<"ckd", "ckd">>, <<"cons", "cons">>, <<"rrt", "rrt">>,
      <<"equiv_modality", "equiv_modality">>, <<"end_of_care", "end_of_care">>,
      <<"is_imprecise", "is_imprecise">>, <<"nhsbt_transplant_type", "nhsbt_transplant_type">>,
      <<"transfer_out", "transfer_out">> >>,
      primary_key |-> {"registry_code"},
      foreign_keys |-> {},
      not_nullable |-> { "registry_code_type", "acute", "transfer_in", "ckd", "cons", "rrt", "end_of_care",
      "is_imprecise" },
      synonyms |-> <<>>,
      relationships |-> <<>>,
      proxies |-> <<>>,
      properties |-> <<>>,
      other |-> {},
      private |-> {"__tablename__"}],
     [name |-> "SatelliteMap", tablename |-> "satellite_map",
      columns |-> << <<"satellite_code", "satellite_code">>, <<"main_unit_code", "main_unit_code">>,
      <<"creation_date", "creation_date">>, <<"update_date", "update_date">> >>,
      primary_key |-> {"satellite_code", "main_unit_code"},
      foreign_keys |-> {},
      not_nullable |-> { "creation_date" },
      synonyms |-> <<>>,
      relationships |-> <<>>,
      proxies |-> <<>>,
      properties |-> <<>>,
      other |-> {},
      private |-> {"__tablename__"}] >>

\* ----------------------------------------------------------------------
\* Declarative classes of src/ukrdc_sqla/empi.py
\* columns: <<attribute key, column name>>; synonyms: <<alias, target name>>;
\* proxies: <<attribute key, relationship, remote attribute>>;
\* foreign_keys: <<attribute key, referenced table, referenced column>>
\* ----------------------------------------------------------------------
\* module namespace of src/ukrdc_sqla/empi.py: class name -> class, in definition order
empi_classes ==
  << [name |-> "MasterRecord", tablename |-> "masterrecord",
      columns |-> << <<"id", "id">>, <<"lastupdated", "lastupdated">>, <<"dateofbirth", "dateofbirth">>,
      <<"gender", "gender">>, <<"givenname", "givenname">>, <<"surname", "surname">>,
      <<"nationalid", "nationalid">>, <<"nationalidtype", "nationalidtype">>,
      <<"status", "status">>, <<"effectivedate", "effectivedate">>,
      <<"creationdate", "creationdate">> >>,
      primary_key |-> {"id"},
      foreign_keys |-> {},
      not_nullable |-> { "lastupdated", "dateofbirth", "nationalid", "nationalidtype", "status", "effectivedate" },
      synonyms |-> << <<"last_updated", "lastupdated">>, <<"date_of_birth", "dateofbirth">>,
         <<"nationalid_type", "nationalidtype">>, <<"effective_date", "effectivedate">>,
         <<"creation_date", "creationdate">> >>,
      relationships |-> << [key |-> "link_records", argument |-> "LinkRecord", cascade |-> {"all", "delete-orphan"}, backref |-> "", back_populates |-> "master_record", uselist |-> "default", viewonly |-> FALSE,
      foreign_keys |-> "", secondary |-> "", primaryjoin |-> <<>>],
     [key |-> "work_items", argument |-> "WorkItem", cascade |-> {"all", "delete-orphan"}, backref |-> "", back_populates |-> "master_record", uselist |-> "default", viewonly |-> FALSE,
      foreign_keys |-> "", secondary |-> "", primaryjoin |-> <<>>] >>,
      proxies |-> <<>>,
      properties |-> <<>>,
      other |-> {},
      private |-> {"__tablename__", "__str__"}],
     [name |-> "LinkRecord", tablename |-> "linkrecord",
      columns |-> << <<"id", "id">>, <<"personid", "personid">>, <<"masterid", "masterid">>,
      <<"linktype", "linktype">>, <<"linkcode", "linkcode">>, <<"linkdesc", "linkdesc">>,
      <<"updatedby", "updatedby">>, <<"lastupdated", "lastupdated">> >>,
      primary_key |-> {"id"},
      foreign_keys |-> {<<"personid", "person", "id">>, <<"masterid", "masterrecord", "id">>},
      not_nullable |-> { "personid", "masterid", "linktype", "linkcode", "lastupdated" },
      synonyms |-> << <<"person_id", "personid">>, <<"master_id", "masterid">>, <<"link_type", "linktype">>,
         <<"link_code", "linkcode">>, <<"link_desc", "linkdesc">>, <<"updated_by", "updatedby">>,
         <<"last_updated", "lastupdated">> >>,
      relationships |-> << [key |-> "person", argument |-> "Person", cascade |-> {}, backref |-> "", back_populates |-> "link_records", uselist |-> "default", viewonly |-> FALSE,
      foreign_keys |-> "", secondary |-> "", primaryjoin |-> <<>>],
     [key |-> "master_record", argument |-> "MasterRecord", cascade |-> {}, backref |-> "", back_populates |-> "link_records", uselist |-> "default", viewonly |-> FALSE,
      foreign_keys |-> "", secondary |-> "", primaryjoin |-> <<>>] >>,
      proxies |-> <<>>,
      properties |-> <<>>,
      other |-> {},
      private |-> {"__tablename__", "__str__"}],
     [name |-> "Person", tablename |-> "person",
      columns |-> << <<"id", "id">>, <<"originator", "originator">>, <<"localid", "localid">>,
      <<"localidtype", "localidtype">>, <<"nationalid", "nationalid">>,
      <<"nationalidtype", "nationalidtype">>, <<"dateofbirth", "dateofbirth">>,
      <<"gender", "gender">>, <<"dateofdeath", "dateofdeath">>, <<"givenname", "givenname">>,
      <<"surname", "surname">>, <<"prevsurname", "prevsurname">>,
      <<"othergivennames", "othergivennames">>, <<"title", "title">>, <<"postcode", "postcode">>,
      <<"street", "street">>, <<"stdsurname", "stdsurname">>,
      <<"stdprevsurname", "stdprevsurname">>, <<"stdgivenname", "stdgivenname">>,
      <<"stdpostcode", "stdpostcode">>, <<"skipduplicatecheck", "skipduplicatecheck">> >>,
      primary_key |-> {"id"},
      foreign_keys |-> {},
      not_nullable |-> { "originator", "localid", "localidtype", "dateofbirth", "gender" },
      synonyms |-> << <<"localid_type", "localidtype">>, <<"nationalid_type", "nationalidtype">>,
         <<"date_of_birth", "dateofbirth">>, <<"date_of_death", "dateofdeath">>,
         <<"prev_surname", "prevsurname">>, <<"other_given_names", "othergivennames">>,
         <<"std_surname", "stdsurname">>, <<"std_prev_surname", "stdprevsurname">>,
         <<"std_given_name", "stdgivenname">>, <<"std_postcode", "stdpostcode">>,
         <<"skip_duplicate_check", "skipduplicatecheck">> >>,
      relationships |-> << [key |-> "link_records", argument |-> "LinkRecord", cascade |-> {"all", "delete-orphan"}, backref |-> "", back_populates |-> "person", uselist |-> "default", viewonly |-> FALSE,
      foreign_keys |-> "", secondary |-> "", primaryjoin |-> <<>>],
     [key |-> "work_items", argument |-> "WorkItem", cascade |-> {"all", "delete-orphan"}, backref |-> "", back_populates |-> "person", uselist |-> "default", viewonly |-> FALSE,
      foreign_keys |-> "", secondary |-> "", primaryjoin |-> <<>>],
     [key |-> "xref_entries", argument |-> "PidXRef", cascade |-> {"all", "delete-orphan"}, backref |-> "", back_populates |-> "person", uselist |-> "default", viewonly |-> FALSE,
      foreign_keys |-> "", secondary |-> "", primaryjoin |-> <<>>] >>,
      proxies |-> <<>>,
      properties |-> <<>>,
      other |-> {},
      private |-> {"__tablename__", "__str__"}],
     [name |-> "WorkItem", tablename |-> "workitem",
      columns |-> << <<"id", "id">>, <<"personid", "personid">>, <<"masterid", "masterid">>, <<"type", "type">>,
      <<"description", "description">>, <<"status", "status">>,
      <<"creationdate", "creationdate">>, <<"lastupdated", "lastupdated">>,
      <<"updatedby", "updatedby">>, <<"updatedesc", "updatedesc">>,
      <<"attributes", "attributes">> >>,
      primary_key |-> {"id"},
      foreign_keys |-> {<<"personid", "person", "id">>, <<"masterid", "masterrecord", "id">>},
      not_nullable |-> { "personid", "masterid", "type", "description", "status", "lastupdated" },
      synonyms |-> << <<"person_id", "personid">>, <<"master_id", "masterid">>,
         <<"creation_date", "creationdate">>, <<"last_updated", "lastupdated">>,
         <<"updated_by", "updatedby">>, <<"update_description", "updatedesc">> >>,
      relationships |-> << [key |-> "person", argument |-> "Person", cascade |-> {}, backref |-> "", back_populates |-> "work_items", uselist |-> "default", viewonly |-> FALSE,
      foreign_keys |-> "", secondary |-> "", primaryjoin |-> <<>>],
     [key |-> "master_record", argument |-> "MasterRecord", cascade |-> {}, backref |-> "", back_populates |-> "work_items", uselist |-> "default", viewonly |-> FALSE,
      foreign_keys |-> "", secondary |-> "", primaryjoin |-> <<>>] >>,
      proxies |-> <<>>,
      properties |-> <<>>,
      other |-> {},
      private |-> {"__tablename__", "__str__"}],
     [name |-> "Audit", tablename |-> "audit",
      columns |-> << <<"id", "id">>, <<"personid", "personid">>, <<"masterid", "masterid">>, <<"type", "type">>,
      <<"description", "description">>, <<"mainnationalid", "mainnationalid">>,
      <<"mainnationalidtype", "mainnationalidtype">>, <<"lastupdated", "lastupdated">>,
      <<"updatedby", "updatedby">> >>,
      primary_key |-> {"id"},
      foreign_keys |-> {},
      not_nullable |-> { "personid", "masterid", "type", "description", "lastupdated" },
      synonyms |-> << <<"person_id", "personid">>, <<"master_id", "masterid">>,
         <<"main_nationalid", "mainnationalid">>, <<"main_nationalid_type", "mainnationalidtype">>,
         <<"last_updated", "lastupdated">>, <<"updated_by", "updatedby">> >>,
      relationships |-> <<>>,
      proxies |-> <<>>,
      properties |-> <<>>,
      other |-> {},
      private |-> {"__tablename__"}],
     [name |-> "PidXRef", tablename |-> "pidxref",
      columns |-> << <<"id", "id">>, <<"pid", "pid">>, <<"sendingfacility", "sendingfacility">>,
      <<"sendingextract", "sendingextract">>, <<"localid", "localid">> >>,
      primary_key |-> {"id"},
      foreign_keys |-> {<<"pid", "person", "localid">>},
      not_nullable |-> { "pid", "sendingfacility", "sendingextract", "localid" },
      synonyms |-> << <<"sending_facility", "sendingfacility">>, <<"sending_extract", "sendingextract">> >>,
      relationships |-> << [key |-> "person", argument |-> "Person", cascade |-> {}, backref |-> "", back_populates |-> "xref_entries", uselist |-> "default", viewonly |-> FALSE,
      foreign_keys |-> "", secondary |-> "", primaryjoin |-> <<>>] >>,
      proxies |-> <<>>,
      properties |-> <<>>,
      other |-> {},
      private |-> {"__tablename__", "__str__"}] >>

\* ----------------------------------------------------------------------
\* Declarative classes of src/ukrdc_sqla/xmlarchive.py
\* columns: <<attribute key, column name>>; synonyms: <<alias, target name>>;
\* proxies: <<attribute key, relationship, remote attribute>>;
\* foreign_keys: <<attribute key, referenced table, referenced column>>
\* ----------------------------------------------------------------------
\* module namespace of src/ukrdc_sqla/xmlarchive.py: class name -> class, in definition order
xmlarchive_classes ==
  << [name |-> "Patient", tablename |-> "patient_demog",
      columns |-> << <<"id", "id">>, <<"creation_date", "creation_date">>,
      <<"sendingfacility", "sendingfacility">>, <<"nationalid", "nationalid">>,
      <<"numbertype", "numbertype">>, <<"organization", "organization">> >>,
      primary_key |-> {"id"},
      foreign_keys |-> {},
      not_nullable |-> { "creation_date", "sendingfacility", "nationalid", "numbertype", "organization" },
      synonyms |-> << <<"patientid", "nationalid">> >>,
      relationships |-> << [key |-> "treatments", argument |-> "Treatment", cascade |-> {"all", "delete-orphan"}, backref |-> "", back_populates |-> "", uselist |-> "default", viewonly |-> FALSE,
      foreign_keys |-> "", secondary |-> "", primaryjoin |-> <<>>],
     [key |-> "assessments", argument |-> "Assessment", cascade |-> {"all", "delete-orphan"}, backref |-> "", back_populates |-> "", uselist |-> "default", viewonly |-> FALSE,
      foreign_keys |-> "", secondary |-> "", primaryjoin |-> <<>>],
     [key |-> "dialysisprescriptions", argument |-> "DialysisPrescription", cascade |-> {"all", "delete-orphan"}, backref |-> "", back_populates |-> "", uselist |-> "default", viewonly |-> FALSE,
      foreign_keys |-> "", secondary |-> "", primaryjoin |-> <<>>],
     [key |-> "diagnoses", argument |-> "Diagnosis", cascade |-> {"all", "delete-orphan"}, backref |-> "", back_populates |-> "", uselist |-> "default", viewonly |-> FALSE,
      foreign_keys |-> "", secondary |-> "", primaryjoin |-> <<>>],
     [key |-> "cause_of_death", argument |-> "CauseOfDeath", cascade |-> {"all", "delete-orphan"}, backref |-> "", back_populates |-> "", uselist |-> "default", viewonly |-> FALSE,
      foreign_keys |-> "", secondary |-> "", primaryjoin |-> <<>>],
     [key |-> "renaldiagnoses", argument |-> "RenalDiagnosis", cascade |-> {"all", "delete-orphan"}, backref |-> "", back_populates |-> "", uselist |-> "default", viewonly |-> FALSE,
      foreign_keys |-> "", secondary |-> "", primaryjoin |-> <<>>] >>,
      proxies |-> <<>>,
      properties |-> <<>>,
      other |-> {},
      private |-> {"__tablename__", "__table_args__"}],
     [name |-> "Treatment", tablename |-> "treatment",
      columns |-> << <<"id", "id">>, <<"idx", "idx">>, <<"patientid", "patientid">>,
      <<"creation_date", "creation_date">>, <<"update_date", "update_date">>,
      <<"encounternumber", "encounternumber">>, <<"encountertype", "encountertype">>,
      <<"fromtime", "fromtime">>, <<"totime", "totime">>,
      <<"admitreasoncode", "admitreasoncode">>, <<"admitreasoncodestd", "admitreasoncodestd">>,
      <<"admitreasondesc", "admitreasondesc">>, <<"qbl05", "qbl05">> >>,
      primary_key |-> {"id"},
      foreign_keys |-> {<<"patientid", "patient_demog", "id">>},
      not_nullable |-> { "creation_date" },
      synonyms |-> <<>>,
      relationships |-> <<>>,
      proxies |-> <<>>,
      properties |-> <<>>,
      other |-> {},
      private |-> {"__tablename__"}],
     [name |-> "Assessment", tablename |-> "assessment",
      columns |-> << <<"id", "id">>, <<"patientid", "patientid">>, <<"creation_date", "creation_date">>,
      <<"update_date", "update_date">>, <<"assessmentstart", "assessmentstart">>,
      <<"assessmentend", "assessmentend">>, <<"assessmenttypecode", "assessmenttypecode">>,
      <<"assessmenttypecodestd", "assessmenttypecodestd">>,
      <<"assessmenttypecodedesc", "assessmenttypecodedesc">>,
      <<"assessmentoutcomecode", "assessmentoutcomecode">>,
      <<"assessmentoutcomecodestd", "assessmentoutcomecodestd">>,
      <<"assessmentoutcomecodedesc", "assessmentoutcomecodedesc">> >>,
      primary_key |-> {"id"},
      foreign_keys |-> {<<"patientid", "patient_demog", "id">>},
      not_nullable |-> { "creation_date" },
      synonyms |-> <<>>,
      relationships |-> <<>>,
      proxies |-> <<>>,
      properties |-> <<>>,
      other |-> {},
      private |-> {"__tablename__"}],
     [name |-> "DialysisPrescription", tablename |-> "dialysisprescription",
      columns |-> << <<"id", "id">>, <<"patientid", "patientid">>, <<"creation_date", "creation_date">>,
      <<"update_date", "update_date">>, <<"enteredon", "enteredon">>, <<"fromtime", "fromtime">>,
      <<"totime", "totime">>, <<"sessiontype", "sessiontype">>,
      <<"sessionsperweek", "sessionsperweek">>, <<"timedialysed", "timedialysed">>,
      <<"vascularaccess", "vascularaccess">> >>,
      primary_key |-> {"id"},
      foreign_keys |-> {<<"patientid", "patient_demog", "id">>},
      not_nullable |-> { "creation_date" },
      synonyms |-> <<>>,
      relationships |-> <<>>,
      proxies |-> <<>>,
      properties |-> <<>>,
      other |-> {},
      private |-> {"__tablename__"}],
     [name |-> "Diagnosis", tablename |-> "diagnosis",
      columns |-> << <<"id", "id">>, <<"patientid", "patientid">>, <<"creation_date", "creation_date">>,
      <<"update_date", "update_date">>, <<"diagnosistype", "diagnosistype">>,
      <<"diagnosiscode", "diagnosiscode">>, <<"diagnosiscodestd", "diagnosiscodestd">>,
      <<"biopsyperformed", "biopsyperformed">>, <<"verificationstatus", "verificationstatus">> >>,
      primary_key |-> {"id"},
      foreign_keys |-> {<<"patientid", "patient_demog", "id">>},
      not_nullable |-> { "creation_date" },
      synonyms |-> <<>>,
      relationships |-> <<>>,
      proxies |-> <<>>,
      properties |-> <<>>,
      other |-> {},
      private |-> {"__tablename__"}],
     [name |-> "CauseOfDeath", tablename |-> "causeofdeath",
      columns |-> << <<"id", "id">>, <<"patientid", "patientid">>, <<"creation_date", "creation_date">>,
      <<"update_date", "update_date">>, <<"diagnosistype", "diagnosistype">>,
      <<"diagnosiscode", "diagnosiscode">>, <<"diagnosiscodestd", "diagnosiscodestd">>,
      <<"diagnosisdesc", "diagnosisdesc">>, <<"comments", "comments">>,
      <<"verificationstatus", "verificationstatus">>, <<"enteredon", "enteredon">>,
      <<"updatedon", "updatedon">>, <<"externalid", "externalid">> >>,
      primary_key |-> {"id"},
      foreign_keys |-> {<<"patientid", "patient_demog", "id">>},
      not_nullable |-> { "creation_date" },
      synonyms |-> <<>>,
      relationships |-> <<>>,
      proxies |-> <<>>,
      properties |-> <<>>,
      other |-> {},
      private |-> {"__tablename__"}],
     [name |-> "RenalDiagnosis", tablename |-> "renaldiagnosis",
      columns |-> << <<"id", "id">>, <<"patientid", "patientid">>, <<"creation_date", "creation_date">>,
      <<"update_date", "update_date">>, <<"diagnosistype", "diagnosistype">>,
      <<"diagnosiscode", "diagnosiscode">>, <<"diagnosiscodestd", "diagnosiscodestd">>,
      <<"diagnosisdesc", "diagnosisdesc">>,
      <<"diagnosingcliniciancode", "diagnosingcliniciancode">>,
      <<"diagnosingcliniciancodestd", "diagnosingcliniciancodestd">>,
      <<"diagnosingcliniciandesc", "diagnosingcliniciandesc">>,
      <<"biopsyperformed", "biopsyperformed">>, <<"comments", "comments">>,
      <<"identificationtime", "identificationtime">>, <<"onsettime", "onsettime">>,
      <<"verificationstatus", "verificationstatus">>, <<"enteredon", "enteredon">>,
      <<"updatedon", "updatedon">>, <<"externalid", "externalid">> >>,
      primary_key |-> {"id"},
      foreign_keys |-> {<<"patientid", "patient_demog", "id">>},
      not_nullable |-> { "creation_date" },
      synonyms |-> <<>>,
      relationships |-> <<>>,
      proxies |-> <<>>,
      properties |-> <<>>,
      other |-> {},
      private |-> {"__tablename__"}],
     [name |-> "PatientNumberSubstitute", tablename |-> "patientnumbersubstitute",
      columns |-> << <<"id", "id">>, <<"ukrdc_patientid", "ukrdc_patientid">>,
      <<"ukrdc_organisation", "ukrdc_organisation">> >>,
      primary_key |-> {"id"},
      foreign_keys |-> {},
      not_nullable |-> {},
      synonyms |-> <<>>,
      relationships |-> <<>>,
      proxies |-> <<>>,
      properties |-> <<>>,
      other |-> {},
      private |-> {"__tablename__"}] >>

\* ----------------------------------------------------------------------
\* Declarative classes of src/tests/ukrdc_v1.py
\* columns: <<attribute key, column name>>; synonyms: <<alias, target name>>;
\* proxies: <<attribute key, relationship, remote attribute>>;
\* foreign_keys: <<attribute key, referenced table, referenced column>>
\* ----------------------------------------------------------------------
\* module namespace of src/tests/ukrdc_v1.py: class name -> class, in definition order
v1_classes ==
  << [name |-> "PatientRecord", tablename |-> "patientrecord",
      columns |-> << <<"pid", "pid">>, <<"sendingfacility", "sendingfacility">>,
      <<"sendingextract", "sendingextract">>, <<"localpatientid", "localpatientid">>,
      <<"ukrdcid", "ukrdcid">>, <<"extract_time", "extracttime">>,
      <<"creation_date", "creation_date">>, <<"update_date", "update_date">>,
      <<"repository_creation_date", "repositorycreationdate">>,
      <<"repository_update_date", "repositoryupdatedate">> >>,
      primary_key |-> {"pid"},
      foreign_keys |-> {},
      not_nullable |-> {},
      synonyms |-> <<>>,
      relationships |-> << [key |-> "patient", argument |-> "Patient", cascade |-> {"all", "delete-orphan"}, backref |-> "record", back_populates |-> "", uselist |-> "False", viewonly |-> FALSE,
      foreign_keys |-> "", secondary |-> "", primaryjoin |-> <<>>],
     [key |-> "lab_orders", argument |-> "LabOrder", cascade |-> {"all", "delete-orphan"}, backref |-> "record", back_populates |-> "", uselist |-> "default", viewonly |-> FALSE,
      foreign_keys |-> "", secondary |-> "", primaryjoin |-> <<>>],
     [key |-> "result_items", argument |-> "ResultItem", cascade |-> {}, backref |-> "", back_populates |-> "", uselist |-> "default", viewonly |-> TRUE,
      foreign_keys |-> "", secondary |-> "laborder", primaryjoin |-> << <<"equal", "LabOrder.pid", "PatientRecord.pid">> >>],
     [key |-> "observations", argument |-> "Observation", cascade |-> {"all", "delete-orphan"}, backref |-> "record", back_populates |-> "", uselist |-> "default", viewonly |-> FALSE,
      foreign_keys |-> "", secondary |-> "", primaryjoin |-> <<>>],
     [key |-> "social_histories", argument |-> "SocialHistory", cascade |-> {"all", "delete-orphan"}, backref |-> "", back_populates |-> "", uselist |-> "default", viewonly |-> FALSE,
      foreign_keys |-> "", secondary |-> "", primaryjoin |-> <<>>],
     [key |-> "family_histories", argument |-> "FamilyHistory", cascade |-> {"all", "delete-orphan"}, backref |-> "", back_populates |-> "", uselist |-> "default", viewonly |-> FALSE,
      foreign_keys |-> "", secondary |-> "", primaryjoin |-> <<>>],
     [key |-> "allergies", argument |-> "Allergy", cascade |-> {"all", "delete-orphan"}, backref |-> "", back_populates |-> "", uselist |-> "default", viewonly |-> FALSE,
      foreign_keys |-> "", secondary |-> "", primaryjoin |-> <<>>],
     [key |-> "diagnoses", argument |-> "Diagnosis", cascade |-> {"all", "delete-orphan"}, backref |-> "", back_populates |-> "", uselist |-> "default", viewonly |-> FALSE,
      foreign_keys |-> "", secondary |-> "", primaryjoin |-> <<>>],
     [key |-> "cause_of_death", argument |-> "CauseOfDeath", cascade |-> {"all", "delete-orphan"}, backref |-> "", back_populates |-> "", uselist |-> "default", viewonly |-> FALSE,
      foreign_keys |-> "", secondary |-> "", primaryjoin |-> <<>>],
     [key |-> "renaldiagnoses", argument |-> "RenalDiagnosis", cascade |-> {"all", "delete-orphan"}, backref |-> "", back_populates |-> "", uselist |-> "default", viewonly |-> FALSE,
      foreign_keys |-> "", secondary |-> "", primaryjoin |-> <<>>],
     [key |-> "medications", argument |-> "Medication", cascade |-> {"all", "delete-orphan"}, backref |-> "", back_populates |-> "", uselist |-> "default", viewonly |-> FALSE,
      foreign_keys |-> "", secondary |-> "", primaryjoin |-> <<>>],
     [key |-> "dialysis_sessions", argument |-> "DialysisSession", cascade |-> {"all", "delete-orphan"}, backref |-> "", back_populates |-> "", uselist |-> "default", viewonly |-> FALSE,
      foreign_keys |-> "", secondary |-> "", primaryjoin |-> <<>>],
     [key |-> "procedures", argument |-> "Procedure", cascade |-> {"all", "delete-orphan"}, backref |-> "", back_populates |-> "", uselist |-> "default", viewonly |-> FALSE,
      foreign_keys |-> "", secondary |-> "", primaryjoin |-> <<>>],
     [key |-> "documents", argument |-> "Document", cascade |-> {"all", "delete-orphan"}, backref |-> "", back_populates |-> "", uselist |-> "default", viewonly |-> FALSE,
      foreign_keys |-> "", secondary |-> "", primaryjoin |-> <<>>],
     [key |-> "encounters", argument |-> "Encounter", cascade |-> {"all", "delete-orphan"}, backref |-> "", back_populates |-> "", uselist |-> "default", viewonly |-> FALSE,
      foreign_keys |-> "", secondary |-> "", primaryjoin |-> <<>>],
     [key |-> "treatments", argument |-> "Treatment", cascade |-> {"all", "delete-orphan"}, backref |-> "", back_populates |-> "", uselist |-> "default", viewonly |-> FALSE,
      foreign_keys |-> "", secondary |-> "", primaryjoin |-> <<>>],
     [key |-> "program_memberships", argument |-> "ProgramMembership", cascade |-> {"all", "delete-orphan"}, backref |-> "", back_populates |-> "", uselist |-> "default", viewonly |-> FALSE,
      foreign_keys |-> "", secondary |-> "", primaryjoin |-> <<>>],
     [key |-> "transplants", argument |-> "Transplant", cascade |-> {"all", "delete-orphan"}, backref |-> "", back_populates |-> "", uselist |-> "default", viewonly |-> FALSE,
      foreign_keys |-> "", secondary |-> "", primaryjoin |-> <<>>],
     [key |-> "opt_outs", argument |-> "OptOut", cascade |-> {"all", "delete-orphan"}, backref |-> "", back_populates |-> "", uselist |-> "default", viewonly |-> FALSE,
      foreign_keys |-> "", secondary |-> "", primaryjoin |-> <<>>],
     [key |-> "clinical_relationships", argument |-> "ClinicalRelationship", cascade |-> {"all", "delete-orphan"}, backref |-> "", back_populates |-> "", uselist |-> "default", viewonly |-> FALSE,
      foreign_keys |-> "", secondary |-> "", primaryjoin |-> <<>>],
     [key |-> "surveys", argument |-> "Survey", cascade |-> {"all", "delete-orphan"}, backref |-> "", back_populates |-> "", uselist |-> "default", viewonly |-> FALSE,
      foreign_keys |-> "", secondary |-> "", primaryjoin |-> <<>>],
     [key |-> "pvdata", argument |-> "PVData", cascade |-> {"all", "delete-orphan"}, backref |-> "", back_populates |-> "", uselist |-> "False", viewonly |-> FALSE,
      foreign_keys |-> "", secondary |-> "", primaryjoin |-> <<>>],
     [key |-> "pvdelete", argument |-> "PVDelete", cascade |-> {"all", "delete-orphan"}, backref |-> "", back_populates |-> "", uselist |-> "default", viewonly |-> FALSE,
      foreign_keys |-> "", secondary |-> "", primaryjoin |-> <<>>] >>,
      proxies |-> <<>>,
      properties |-> <<>>,
      other |-> {},
      private |-> {"__tablename__", "__str__"}],
     [name |-> "Patient", tablename |-> "patient",
      columns |-> << <<"pid", "pid">>, <<"birth_time", "birthtime">>, <<"death_time", "deathtime">>,
      <<"gender", "gender">>, <<"country_of_birth", "countryofbirth">>,
      <<"ethnic_group_code", "ethnicgroupcode">>,
      <<"ethnic_group_description", "ethnicgroupdesc">>,
      <<"person_to_contact_name", "persontocontactname">>,
      <<"person_to_contact_number", "persontocontact_contactnumber">>,
      <<"person_to_contact_relationship", "persontocontact_relationship">>,
      <<"person_to_contact_number_comments", "persontocontact_contactnumbercomments">>,
      <<"person_to_contact_number_type", "persontocontact_contactnumbertype">>,
      <<"occupation_code", "occupationcode">>, <<"occupation_codestd", "occupationcodestd">>,
      <<"occupation_description", "occupationdesc">>,
      <<"primary_language", "primarylanguagecode">>,
      <<"primary_language_codestd", "primarylanguagecodestd">>,
      <<"primary_language_description", "primarylanguagedesc">>, <<"dead", "death">>,
      <<"updated_on", "updatedon">>, <<"bloodgroup", "bloodgroup">>,
      <<"bloodrhesus", "bloodrhesus">> >>,
      primary_key |-> {"pid"},
      foreign_keys |-> {<<"pid", "patientrecord", "pid">>},
      not_nullable |-> {},
      synonyms |-> <<>>,
      relationships |-> << [key |-> "numbers", argument |-> "PatientNumber", cascade |-> {"all", "delete-orphan"}, backref |-> "patient", back_populates |-> "", uselist |-> "default", viewonly |-> FALSE,
      foreign_keys |-> "", secondary |-> "", primaryjoin |-> <<>>],
     [key |-> "names", argument |-> "Name", cascade |-> {"all", "delete-orphan"}, backref |-> "", back_populates |-> "", uselist |-> "default", viewonly |-> FALSE,
      foreign_keys |-> "", secondary |-> "", primaryjoin |-> <<>>],
     [key |-> "contact_details", argument |-> "ContactDetail", cascade |-> {"all", "delete-orphan"}, backref |-> "", back_populates |-> "", uselist |-> "default", viewonly |-> FALSE,
      foreign_keys |-> "", secondary |-> "", primaryjoin |-> <<>>],
     [key |-> "addresses", argument |-> "Address", cascade |-> {"all", "delete-orphan"}, backref |-> "", back_populates |-> "", uselist |-> "default", viewonly |-> FALSE,
      foreign_keys |-> "", secondary |-> "", primaryjoin |-> <<>>],
     [key |-> "familydoctor", argument |-> "FamilyDoctor", cascade |-> {"all", "delete-orphan"}, backref |-> "", back_populates |-> "", uselist |-> "False", viewonly |-> FALSE,
      foreign_keys |-> "", secondary |-> "", primaryjoin |-> <<>>] >>,
      proxies |-> <<>>,
      properties |-> << "name", "first_ni_number", "first_hospital_number" >>,
      other |-> {},
      private |-> {"__tablename__", "__str__"}],
     [name |-> "CauseOfDeath", tablename |-> "causeofdeath",
      columns |-> << <<"pid", "pid">>, <<"diagnosis_type", "diagnosistype">>,
      <<"diagnosing_clinician_code", "diagnosingcliniciancode">>,
      <<"diagnosing_clinician_code_std", "diagnosingcliniciancodestd">>,
      <<"diagnosing_clinician_desc", "diagnosingcliniciandesc">>,
      <<"diagnosis_code", "diagnosiscode">>, <<"diagnosis_code_std", "diagnosiscodestd">>,
      <<"diagnosis_desc", "diagnosisdesc">>, <<"comments", "comments">>,
      <<"entered_on", "enteredon">>, <<"updated_on", "updatedon">>,
      <<"action_code", "actioncode">>, <<"external_id", "externalid">> >>,
      primary_key |-> {"pid"},
      foreign_keys |-> {<<"pid", "patientrecord", "pid">>},
      not_nullable |-> {},
      synonyms |-> <<>>,
      relationships |-> <<>>,
      proxies |-> <<>>,
      properties |-> <<>>,
      other |-> {},
      private |-> {"__tablename__"}],
     [name |-> "FamilyDoctor", tablename |-> "familydoctor",
      columns |-> << <<"id", "id">>, <<"gpname", "gpname">>, <<"gpid", "gpid">>,
      <<"gppracticeid", "gppracticeid">>, <<"addressuse", "addressuse">>,
      <<"fromtime", "fromtime">>, <<"totime", "totime">>, <<"street", "street">>,
      <<"town", "town">>, <<"county", "county">>, <<"postcode", "postcode">>,
      <<"countrycode", "countrycode">>, <<"countrycodestd", "countrycodestd">>,
      <<"countrydesc", "countrydesc">>, <<"contactuse", "contactuse">>,
      <<"contactvalue", "contactvalue">>, <<"email", "email">>, <<"commenttext", "commenttext">> >>,
      primary_key |-> {"id"},
      foreign_keys |-> {<<"id", "patient", "pid">>, <<"gpid", "ukrdc_ods_gp_codes", "code">>, <<"gppracticeid", "ukrdc_ods_gp_codes", "code">>},
      not_nullable |-> {},
      synonyms |-> <<>>,
      relationships |-> << [key |-> "gp_info", argument |-> "GPInfo", cascade |-> {}, backref |-> "", back_populates |-> "", uselist |-> "False", viewonly |-> FALSE,
      foreign_keys |-> "gpid", secondary |-> "", primaryjoin |-> <<>>],
     [key |-> "gp_practice_info", argument |-> "GPInfo", cascade |-> {}, backref |-> "", back_populates |-> "", uselist |-> "False", viewonly |-> FALSE,
      foreign_keys |-> "gppracticeid", secondary |-> "", primaryjoin |-> <<>>] >>,
      proxies |-> <<>>,
      properties |-> <<>>,
      other |-> {},
      private |-> {"__tablename__", "__str__"}],
     [name |-> "GPInfo", tablename |-> "ukrdc_ods_gp_codes",
      columns |-> << <<"code", "code">>, <<"gpname", "name">>, <<"street", "address1">>,
      <<"postcode", "postcode">>, <<"contactvalue", "phone">>, <<"type", "type">> >>,
      primary_key |-> {"code"},
      foreign_keys |-> {},
      not_nullable |-> {},
      synonyms |-> <<>>,
      relationships |-> <<>>,
      proxies |-> <<>>,
      properties |-> <<>>,
      other |-> {},
      private |-> {"__tablename__"}],
     [name |-> "SocialHistory", tablename |-> "socialhistory",
      columns |-> << <<"id", "id">>, <<"pid", "pid">> >>,
      primary_key |-> {"id"},
      foreign_keys |-> {<<"pid", "patientrecord", "pid">>},
      not_nullable |-> {},
      synonyms |-> <<>>,
      relationships |-> <<>>,
      proxies |-> <<>>,
      properties |-> <<>>,
      other |-> {},
      private |-> {"__tablename__"}],
     [name |-> "FamilyHistory", tablename |-> "familyhistory",
      columns |-> << <<"id", "id">>, <<"pid", "pid">> >>,
      primary_key |-> {"id"},
      foreign_keys |-> {<<"pid", "patientrecord", "pid">>},
      not_nullable |-> {},
      synonyms |-> <<>>,
      relationships |-> <<>>,
      proxies |-> <<>>,
      properties |-> <<>>,
      other |-> {},
      private |-> {"__tablename__"}],
     [name |-> "Observation", tablename |-> "observation",
      columns |-> << <<"id", "id">>, <<"pid", "pid">>, <<"idx", "idx">>,
      <<"observation_time", "observationtime">>, <<"observation_code", "observationcode">>,
      <<"observation_code_std", "observationcodestd">>,
      <<"observation_desc", "observationdesc">>, <<"observation_value", "observationvalue">>,
      <<"observation_units", "observationunits">>, <<"comment_text", "commenttext">>,
      <<"clinician_code", "cliniciancode">>, <<"clinician_code_std", "cliniciancodestd">>,
      <<"clinician_desc", "cliniciandesc">>, <<"entered_at", "enteredatcode">>,
      <<"entered_at_description", "enteredatdesc">>,
      <<"entering_organization_code", "enteringorganizationcode">>,
      <<"entering_organization_description", "enteringorganizationdesc">>,
      <<"updated_on", "updatedon">>, <<"action_code", "actioncode">>,
      <<"external_id", "externalid">>, <<"pre_post", "prepost">> >>,
      primary_key |-> {"id"},
      foreign_keys |-> {<<"pid", "patientrecord", "pid">>},
      not_nullable |-> {},
      synonyms |-> <<>>,
      relationships |-> <<>>,
      proxies |-> <<>>,
      properties |-> <<>>,
      other |-> {},
      private |-> {"__tablename__", "__str__"}],
     [name |-> "OptOut", tablename |-> "optout",
      columns |-> << <<"id", "id">>, <<"pid", "pid">>, <<"idx", "idx">>, <<"program_name", "programname">>,
      <<"program_description", "programdescription">>, <<"entered_by_code", "enteredbycode">>,
      <<"entered_by_code_std", "enteredbycodestd">>, <<"entered_by_desc", "enteredbydesc">>,
      <<"entered_at_code", "enteredatcode">>, <<"entered_at_code_std", "enteredatcodestd">>,
      <<"entered_at_desc", "enteredatdesc">>, <<"from_time", "fromtime">>,
      <<"to_time", "totime">>, <<"updated_on", "updatedon">>, <<"action_code", "actioncode">>,
      <<"external_id", "externalid">> >>,
      primary_key |-> {"id"},
      foreign_keys |-> {<<"pid", "patientrecord", "pid">>},
      not_nullable |-> {},
      synonyms |-> <<>>,
      relationships |-> <<>>,
      proxies |-> <<>>,
      properties |-> <<>>,
      other |-> {},
      private |-> {"__tablename__"}],
     [name |-> "Allergy", tablename |-> "allergy",
      columns |-> << <<"id", "id">>, <<"pid", "pid">> >>,
      primary_key |-> {"id"},
      foreign_keys |-> {<<"pid", "patientrecord", "pid">>},
      not_nullable |-> {},
      synonyms |-> <<>>,
      relationships |-> <<>>,
      proxies |-> <<>>,
      properties |-> <<>>,
      other |-> {},
      private |-> {"__tablename__"}],
     [name |-> "Diagnosis", tablename |-> "diagnosis",
      columns |-> << <<"id", "id">>, <<"pid", "pid">>, <<"diagnosis_code", "diagnosiscode">>,
      <<"diagnosis_code_std", "diagnosiscodestd">>, <<"diagnosis_desc", "diagnosisdesc">>,
      <<"identification_time", "identificationtime">>, <<"onset_time", "onsettime">>,
      <<"comments", "comments">> >>,
      primary_key |-> {"id"},
      foreign_keys |-> {<<"pid", "patientrecord", "pid">>},
      not_nullable |-> {},
      synonyms |-> <<>>,
      relationships |-> <<>>,
      proxies |-> <<>>,
      properties |-> <<>>,
      other |-> {},
      private |-> {"__tablename__"}],
     [name |-> "RenalDiagnosis", tablename |-> "renaldiagnosis",
      columns |-> << <<"pid", "pid">>, <<"diagnosis_code", "diagnosiscode">>,
      <<"diagnosis_code_std", "diagnosiscodestd">>, <<"diagnosis_desc", "diagnosisdesc">>,
      <<"identification_time", "identificationtime">>, <<"comments", "comments">> >>,
      primary_key |-> {"pid"},
      foreign_keys |-> {<<"pid", "patientrecord", "pid">>},
      not_nullable |-> {},
      synonyms |-> <<>>,
      relationships |-> <<>>,
      proxies |-> <<>>,
      properties |-> <<>>,
      other |-> {},
      private |-> {"__tablename__"}],
     [name |-> "DialysisSession", tablename |-> "dialysissession",
      columns |-> << <<"id", "id">>, <<"pid", "pid">>, <<"procedure_type_code", "proceduretypecode">>,
      <<"procedure_type_code_std", "proceduretypecodestd">>,
      <<"procedure_type_desc", "proceduretypedesc">>, <<"procedure_time", "proceduretime">>,
      <<"qhd19", "qhd19">>, <<"qhd20", "qhd20">>, <<"qhd21", "qhd21">>, <<"qhd22", "qhd22">>,
      <<"qhd30", "qhd30">>, <<"qhd31", "qhd31">>, <<"qhd32", "qhd32">>, <<"qhd33", "qhd33">> >>,
      primary_key |-> {"id"},
      foreign_keys |-> {<<"pid", "patientrecord", "pid">>},
      not_nullable |-> {},
      synonyms |-> <<>>,
      relationships |-> <<>>,
      proxies |-> <<>>,
      properties |-> <<>>,
      other |-> {},
      private |-> {"__tablename__"}],
     [name |-> "Transplant", tablename |-> "transplant",
      columns |-> << <<"id", "id">>, <<"pid", "pid">>, <<"procedure_type_code", "proceduretypecode">>,
      <<"procedure_type_code_std", "proceduretypecodestd">>,
      <<"procedure_type_desc", "proceduretypedesc">>, <<"procedure_time", "proceduretime">>,
      <<"tra64", "tra64">>, <<"tra65", "tra65">>, <<"tra66", "tra66">>, <<"tra69", "tra69">>,
      <<"tra76", "tra76">>, <<"tra77", "tra77">>, <<"tra78", "tra78">>, <<"tra79", "tra79">>,
      <<"tra8a", "tra8a">>, <<"tra81", "tra81">>, <<"tra82", "tra82">>, <<"tra83", "tra83">>,
      <<"tra84", "tra84">>, <<"tra85", "tra85">> >>,
      primary_key |-> {"id"},
      foreign_keys |-> {<<"pid", "patientrecord", "pid">>},
      not_nullable |-> {},
      synonyms |-> <<>>,
      relationships |-> <<>>,
      proxies |-> <<>>,
      properties |-> <<>>,
      other |-> {},
      private |-> {"__tablename__"}],
     [name |-> "Procedure", tablename |-> "procedure",
      columns |-> << <<"id", "id">>, <<"pid", "pid">> >>,
      primary_key |-> {"id"},
      foreign_keys |-> {<<"pid", "patientrecord", "pid">>},
      not_nullable |-> {},
      synonyms |-> <<>>,
      relationships |-> <<>>,
      proxies |-> <<>>,
      properties |-> <<>>,
      other |-> {},
      private |-> {"__tablename__"}],
     [name |-> "Encounter", tablename |-> "encounter",
      columns |-> << <<"id", "id">>, <<"pid", "pid">>, <<"from_time", "fromtime">>, <<"to_time", "totime">> >>,
      primary_key |-> {"id"},
      foreign_keys |-> {<<"pid", "patientrecord", "pid">>},
      not_nullable |-> {},
      synonyms |-> <<>>,
      relationships |-> <<>>,
      proxies |-> <<>>,
      properties |-> <<>>,
      other |-> {},
      private |-> {"__tablename__"}],
     [name |-> "ProgramMembership", tablename |-> "programmembership",
      columns |-> << <<"id", "id">>, <<"pid", "pid">>, <<"program_name", "programname">>,
      <<"from_time", "fromtime">>, <<"to_time", "totime">> >>,
      primary_key |-> {"id"},
      foreign_keys |-> {<<"pid", "patientrecord", "pid">>},
      not_nullable |-> {},
      synonyms |-> <<>>,
      relationships |-> <<>>,
      proxies |-> <<>>,
      properties |-> <<>>,
      other |-> {},
      private |-> {"__tablename__", "__str__"}],
     [name |-> "ClinicalRelationship", tablename |-> "clinicalrelationship",
      columns |-> << <<"id", "id">>, <<"pid", "pid">> >>,
      primary_key |-> {"id"},
      foreign_keys |-> {<<"pid", "patientrecord", "pid">>},
      not_nullable |-> {},
      synonyms |-> <<>>,
      relationships |-> <<>>,
      proxies |-> <<>>,
      properties |-> <<>>,
      other |-> {},
      private |-> {"__tablename__"}],
     [name |-> "Name", tablename |-> "name",
      columns |-> << <<"id", "id">>, <<"pid", "pid">>, <<"nameuse", "nameuse">>, <<"prefix", "prefix">>,
      <<"family", "family">>, <<"given", "given">>, <<"othergivennames", "othergivennames">>,
      <<"suffix", "suffix">> >>,
      primary_key |-> {"id"},
      foreign_keys |-> {<<"pid", "patient", "pid">>},
      not_nullable |-> {},
      synonyms |-> <<>>,
      relationships |-> <<>>,
      proxies |-> <<>>,
      properties |-> <<>>,
      other |-> {},
      private |-> {"__tablename__", "__str__"}],
     [name |-> "PatientNumber", tablename |-> "patientnumber",
      columns |-> << <<"id", "id">>, <<"pid", "pid">>, <<"patientid", "patientid">>,
      <<"organization", "organization">>, <<"numbertype", "numbertype">> >>,
      primary_key |-> {"id"},
      foreign_keys |-> {<<"pid", "patient", "pid">>},
      not_nullable |-> {},
      synonyms |-> <<>>,
      relationships |-> <<>>,
      proxies |-> <<>>,
      properties |-> <<>>,
      other |-> {},
      private |-> {"__tablename__", "__str__"}],
     [name |-> "Address", tablename |-> "address",
      columns |-> << <<"id", "id">>, <<"pid", "pid">>, <<"addressuse", "addressuse">>,
      <<"from_time", "fromtime">>, <<"to_time", "totime">>, <<"street", "street">>,
      <<"town", "town">>, <<"county", "county">>, <<"postcode", "postcode">>,
      <<"country_code", "countrycode">>, <<"country_code_std", "countrycodestd">>,
      <<"country_description", "countrydesc">> >>,
      primary_key |-> {"id"},
      foreign_keys |-> {<<"pid", "patient", "pid">>},
      not_nullable |-> {},
      synonyms |-> <<>>,
      relationships |-> <<>>,
      proxies |-> <<>>,
      properties |-> <<>>,
      other |-> {},
      private |-> {"__tablename__", "__str__"}],
     [name |-> "ContactDetail", tablename |-> "contactdetail",
      columns |-> << <<"id", "id">>, <<"pid", "pid">>, <<"use", "contactuse">>, <<"value", "contactvalue">>,
      <<"commenttext", "commenttext">> >>,
      primary_key |-> {"id"},
      foreign_keys |-> {<<"pid", "patient", "pid">>},
      not_nullable |-> {},
      synonyms |-> <<>>,
      relationships |-> <<>>,
      proxies |-> <<>>,
      properties |-> <<>>,
      other |-> {},
      private |-> {"__tablename__", "__str__"}],
     [name |-> "Medication", tablename |-> "medication",
      columns |-> << <<"id", "id">>, <<"pid", "pid">>, <<"idx", "idx">>, <<"from_time", "fromtime">>,
      <<"to_time", "totime">>, <<"dose_uom_code", "doseuomcode">>,
      <<"dose_uom_code_std", "doseuomcodestd">>, <<"dose_uom_description", "doseuomdesc">>,
      <<"dose_quantity", "dosequantity">>, <<"drug_product_id_code", "drugproductidcode">>,
      <<"drug_product_id_description", "drugproductiddesc">>,
      <<"drug_product_generic", "drugproductgeneric">>,
      <<"entering_organization_code", "enteringorganizationcode">>,
      <<"entering_organization_description", "enteringorganizationdesc">>,
      <<"frequency", "frequency">>, <<"comment", "commenttext">>, <<"route_code", "routecode">>,
      <<"route_code_std", "routecodestd">>, <<"route_desc", "routedesc">>,
      <<"external_id", "externalid">>, <<"updated_on", "updatedon">>,
      <<"repository_update_date", "repositoryupdatedate">> >>,
      primary_key |-> {"id"},
      foreign_keys |-> {<<"pid", "patientrecord", "pid">>},
      not_nullable |-> {},
      synonyms |-> <<>>,
      relationships |-> <<>>,
      proxies |-> <<>>,
      properties |-> <<>>,
      other |-> {},
      private |-> {"__tablename__", "__str__"}],
     [name |-> "Survey", tablename |-> "survey",
      columns |-> << <<"id", "id">>, <<"pid", "pid">>, <<"surveytime", "surveytime">>,
      <<"surveytypecode", "surveytypecode">>, <<"surveytypecodestd", "surveytypecodestd">>,
      <<"surveytypedesc", "surveytypedesc">>, <<"enteredbycode", "enteredbycode">>,
      <<"enteredbycodestd", "enteredbycodestd">>, <<"enteredatcode", "enteredatcode">>,
      <<"enteredatcodestd", "enteredatcodestd">>, <<"enteredatdesc", "enteredatdesc">>,
      <<"updatedon", "updatedon">>, <<"externalid", "externalid">> >>,
      primary_key |-> {"id"},
      foreign_keys |-> {<<"pid", "patientrecord", "pid">>},
      not_nullable |-> {},
      synonyms |-> <<>>,
      relationships |-> << [key |-> "questions", argument |-> "Question", cascade |-> {"all", "delete-orphan"}, backref |-> "", back_populates |-> "", uselist |-> "default", viewonly |-> FALSE,
      foreign_keys |-> "", secondary |-> "", primaryjoin |-> <<>>],
     [key |-> "scores", argument |-> "Score", cascade |-> {"all", "delete-orphan"}, backref |-> "", back_populates |-> "", uselist |-> "default", viewonly |-> FALSE,
      foreign_keys |-> "", secondary |-> "", primaryjoin |-> <<>>],
     [key |-> "levels", argument |-> "Level", cascade |-> {"all", "delete-orphan"}, backref |-> "", back_populates |-> "", uselist |-> "default", viewonly |-> FALSE,
      foreign_keys |-> "", secondary |-> "", primaryjoin |-> <<>>] >>,
      proxies |-> <<>>,
      properties |-> <<>>,
      other |-> {},
      private |-> {"__tablename__", "__str__"}],
     [name |-> "Question", tablename |-> "question",
      columns |-> << <<"id", "id">>, <<"surveyid", "surveyid">>, <<"questiontypecode", "questiontypecode">>,
      <<"questiontypecodestd", "questiontypecodestd">>,
      <<"questiontypedesc", "questiontypedesc">>, <<"response", "response">> >>,
      primary_key |-> {"id"},
      foreign_keys |-> {<<"surveyid", "survey", "id">>},
      not_nullable |-> {},
      synonyms |-> <<>>,
      relationships |-> <<>>,
      proxies |-> <<>>,
      properties |-> <<>>,
      other |-> {},
      private |-> {"__tablename__"}],
     [name |-> "Score", tablename |-> "score",
      columns |-> << <<"id", "id">>, <<"surveyid", "surveyid">>, <<"value", "scorevalue">>,
      <<"scoretypecode", "scoretypecode">>, <<"scoretypecodestd", "scoretypecodestd">>,
      <<"scoretypedesc", "scoretypedesc">> >>,
      primary_key |-> {"id"},
      foreign_keys |-> {<<"surveyid", "survey", "id">>},
      not_nullable |-> {},
      synonyms |-> <<>>,
      relationships |-> <<>>,
      proxies |-> <<>>,
      properties |-> <<>>,
      other |-> {},
      private |-> {"__tablename__"}],
     [name |-> "Level", tablename |-> "level",
      columns |-> << <<"id", "id">>, <<"surveyid", "surveyid">>, <<"value", "levelvalue">>,
      <<"leveltypecode", "leveltypecode">>, <<"leveltypecodestd", "leveltypecodestd">>,
      <<"leveltypedesc", "leveltypedesc">> >>,
      primary_key |-> {"id"},
      foreign_keys |-> {<<"surveyid", "survey", "id">>},
      not_nullable |-> {},
      synonyms |-> <<>>,
      relationships |-> <<>>,
      proxies |-> <<>>,
      properties |-> <<>>,
      other |-> {},
      private |-> {"__tablename__"}],
     [name |-> "Document", tablename |-> "document",
      columns |-> << <<"id", "id">>, <<"pid", "pid">>, <<"idx", "idx">>, <<"documenttime", "documenttime">>,
      <<"notetext", "notetext">>, <<"documenttypecode", "documenttypecode">>,
      <<"documenttypecodestd", "documenttypecodestd">>,
      <<"documenttypedesc", "documenttypedesc">>, <<"cliniciancode", "cliniciancode">>,
      <<"cliniciancodestd", "cliniciancodestd">>, <<"cliniciandesc", "cliniciandesc">>,
      <<"documentname", "documentname">>, <<"statuscode", "statuscode">>,
      <<"statuscodestd", "statuscodestd">>, <<"statusdesc", "statusdesc">>,
      <<"enteredbycode", "enteredbycode">>, <<"enteredbycodestd", "enteredbycodestd">>,
      <<"enteredbydesc", "enteredbydesc">>, <<"enteredatcode", "enteredatcode">>,
      <<"enteredatcodestd", "enteredatcodestd">>, <<"enteredatdesc", "enteredatdesc">>,
      <<"filetype", "filetype">>, <<"filename", "filename">>, <<"stream", "stream">>,
      <<"documenturl", "documenturl">>, <<"updatedon", "updatedon">>,
      <<"actioncode", "actioncode">>, <<"externalid", "externalid">>,
      <<"update_date", "update_date">>, <<"creation_date", "creation_date">>,
      <<"repository_update_date", "repositoryupdatedate">> >>,
      primary_key |-> {"id"},
      foreign_keys |-> {<<"pid", "patientrecord", "pid">>},
      not_nullable |-> {},
      synonyms |-> <<>>,
      relationships |-> <<>>,
      proxies |-> <<>>,
      properties |-> <<>>,
      other |-> {},
      private |-> {"__tablename__"}],
     [name |-> "LabOrder", tablename |-> "laborder",
      columns |-> << <<"id", "id">>, <<"pid", "pid">>, <<"receiving_location", "receivinglocationcode">>,
      <<"receiving_location_description", "receivinglocationdesc">>, <<"placer_id", "placerid">>,
      <<"filler_id", "fillerid">>, <<"ordered_by", "orderedbycode">>,
      <<"ordered_by_description", "orderedbydesc">>, <<"order_item", "orderitemcode">>,
      <<"order_item_description", "orderitemdesc">>, <<"order_category", "ordercategorycode">>,
      <<"order_category_description", "ordercategorydesc">>,
      <<"specimen_collected_time", "specimencollectedtime">>,
      <<"specimen_received_time", "specimenreceivedtime">>, <<"status", "status">>,
      <<"priority", "prioritycode">>, <<"priority_description", "prioritydesc">>,
      <<"specimen_source", "specimensource">>, <<"duration", "duration">>,
      <<"patient_class", "patientclasscode">>,
      <<"patient_class_description", "patientclassdesc">>, <<"entered_on", "enteredon">>,
      <<"entered_at", "enteredatcode">>, <<"entered_at_description", "enteredatdesc">>,
      <<"external_id", "externalid">>,
      <<"entering_organization_code", "enteringorganizationcode">>,
      <<"entering_organization_description", "enteringorganizationdesc">> >>,
      primary_key |-> {"id"},
      foreign_keys |-> {<<"pid", "patientrecord", "pid">>},
      not_nullable |-> {},
      synonyms |-> <<>>,
      relationships |-> << [key |-> "result_items", argument |-> "ResultItem", cascade |-> {"all", "delete-orphan"}, backref |-> "", back_populates |-> "order", uselist |-> "default", viewonly |-> FALSE,
      foreign_keys |-> "", secondary |-> "", primaryjoin |-> <<>>] >>,
      proxies |-> <<>>,
      properties |-> <<>>,
      other |-> {},
      private |-> {"__tablename__"}],
     [name |-> "ResultItem", tablename |-> "resultitem",
      columns |-> << <<"id", "id">>, <<"order_id", "orderid">>, <<"result_type", "resulttype">>,
      <<"entered_on", "enteredon">>, <<"pre_post", "prepost">>,
      <<"service_id", "serviceidcode">>, <<"service_id_std", "serviceidcodestd">>,
      <<"service_id_description", "serviceiddesc">>, <<"sub_id", "subid">>,
      <<"value", "resultvalue">>, <<"value_units", "resultvalueunits">>,
      <<"reference_range", "referencerange">>, <<"interpretation_codes", "interpretationcodes">>,
      <<"status", "status">>, <<"observation_time", "observationtime">>,
      <<"comments", "commenttext">>, <<"reference_comment", "referencecomment">> >>,
      primary_key |-> {"id"},
      foreign_keys |-> {<<"order_id", "laborder", "id">>},
      not_nullable |-> {},
      synonyms |-> <<>>,
      relationships |-> << [key |-> "order", argument |-> "LabOrder", cascade |-> {}, backref |-> "", back_populates |-> "result_items", uselist |-> "default", viewonly |-> FALSE,
      foreign_keys |-> "", secondary |-> "", primaryjoin |-> <<>>] >>,
      proxies |-> << <<"pid", "order", "pid">> >>,
      properties |-> <<>>,
      other |-> {},
      private |-> {"__tablename__"}],
     [name |-> "PVData", tablename |-> "pvdata",
      columns |-> << <<"id", "id">>, <<"rrtstatus", "rrtstatus">>, <<"tpstatus", "tpstatus">>,
      <<"diagnosisdate", "diagnosisdate">>, <<"bloodgroup", "bloodgroup">>,
      <<"update_date", "update_date">>, <<"creation_date", "creation_date">> >>,
      primary_key |-> {"id"},
      foreign_keys |-> {<<"id", "patientrecord", "pid">>},
      not_nullable |-> {},
      synonyms |-> <<>>,
      relationships |-> <<>>,
      proxies |-> <<>>,
      properties |-> <<>>,
      other |-> {},
      private |-> {"__tablename__", "__str__"}],
     [name |-> "PVDelete", tablename |-> "pvdelete",
      columns |-> << <<"did", "did">>, <<"pid", "pid">>, <<"observation_time", "observationtime">>,
      <<"service_id", "serviceidcode">> >>,
      primary_key |-> {"did"},
      foreign_keys |-> {<<"pid", "patientrecord", "pid">>},
      not_nullable |-> {},
      synonyms |-> <<>>,
      relationships |-> <<>>,
      proxies |-> <<>>,
      properties |-> <<>>,
      other |-> {},
      private |-> {"__tablename__"}],
     [name |-> "Treatment", tablename |-> "treatment",
      columns |-> << <<"id", "id">>, <<"pid", "pid">>, <<"idx", "idx">>,
      <<"encounter_number", "encounternumber">>, <<"encounter_type", "encountertype">>,
      <<"from_time", "fromtime">>, <<"to_time", "totime">>,
      <<"admitting_clinician_code", "admittingcliniciancode">>,
      <<"admitting_clinician_code_std", "admittingcliniciancodestd">>,
      <<"admitting_clinician_desc", "admittingcliniciandesc">>,
      <<"admission_source_code", "admissionsourcecode">>,
      <<"admission_source_code_std", "admissionsourcecodestd">>,
      <<"admission_source_desc", "admissionsourcedesc">>,
      <<"admit_reason_code", "admitreasoncode">>,
      <<"admit_reason_code_std", "admitreasoncodestd">>,
      <<"discharge_reason_code", "dischargereasoncode">>,
      <<"discharge_reason_code_std", "dischargereasoncodestd">>,
      <<"discharge_location_code", "dischargelocationcode">>,
      <<"discharge_location_code_std", "dischargelocationcodestd">>,
      <<"discharge_location_desc", "dischargelocationdesc">>,
      <<"health_care_facility_code", "healthcarefacilitycode">>,
      <<"health_care_facility_code_std", "healthcarefacilitycodestd">>,
      <<"health_care_facility_desc", "healthcarefacilitydesc">>,
      <<"entered_at_code", "enteredatcode">>, <<"visit_description", "visitdescription">>,
      <<"updated_on", "updatedon">>, <<"action_code", "actioncode">>,
      <<"external_id", "externalid">>, <<"hdp01", "hdp01">>, <<"hdp02", "hdp02">>,
      <<"hdp03", "hdp03">>, <<"hdp04", "hdp04">>, <<"qbl05", "qbl05">>, <<"qbl06", "qbl06">>,
      <<"qbl07", "qbl07">>, <<"erf61", "erf61">>, <<"pat35", "pat35">> >>,
      primary_key |-> {"id"},
      foreign_keys |-> {<<"pid", "patientrecord", "pid">>},
      not_nullable |-> {},
      synonyms |-> <<>>,
      relationships |-> << [key |-> "admit_reason_code_item", argument |-> "Code", cascade |-> {}, backref |-> "", back_populates |-> "", uselist |-> "default", viewonly |-> FALSE,
      foreign_keys |-> "", secondary |-> "", primaryjoin |-> << <<"foreign", "admit_reason_code_std", "coding_standard">>, <<"foreign", "admit_reason_code", "code">> >>],
     [key |-> "discharge_reason_code_item", argument |-> "Code", cascade |-> {}, backref |-> "", back_populates |-> "", uselist |-> "default", viewonly |-> FALSE,
      foreign_keys |-> "", secondary |-> "", primaryjoin |-> << <<"foreign", "discharge_reason_code_std", "coding_standard">>, <<"foreign", "discharge_reason_code", "code">> >>] >>,
      proxies |-> << <<"admit_reason_desc", "admit_reason_code_item", "description">>,
      <<"discharge_reason_desc", "discharge_reason_code_item", "description">> >>,
      properties |-> <<>>,
      other |-> {},
      private |-> {"__tablename__"}],
     [name |-> "Code", tablename |-> "code_list",
      columns |-> << <<"coding_standard", "coding_standard">>, <<"code", "code">>,
      <<"description", "description">>, <<"object_type", "object_type">>,
      <<"creation_date", "creation_date">>, <<"update_date", "update_date">>,
      <<"units", "units">> >>,
      primary_key |-> {"coding_standard", "code"},
      foreign_keys |-> {},
      not_nullable |-> {},
      synonyms |-> <<>>,
      relationships |-> <<>>,
      proxies |-> <<>>,
      properties |-> <<>>,
      other |-> {},
      private |-> {"__tablename__"}],
     [name |-> "CodeExclusion", tablename |-> "code_exclusion",
      columns |-> << <<"coding_standard", "coding_standard">>, <<"code", "code">>, <<"system", "system">> >>,
      primary_key |-> {"coding_standard", "code", "system"},
      foreign_keys |-> {},
      not_nullable |-> {},
      synonyms |-> <<>>,
      relationships |-> <<>>,
      proxies |-> <<>>,
      properties |-> <<>>,
      other |-> {},
      private |-> {"__tablename__"}],
     [name |-> "CodeMap", tablename |-> "code_map",
      columns |-> << <<"source_coding_standard", "source_coding_standard">>, <<"source_code", "source_code">>,
      <<"destination_coding_standard", "destination_coding_standard">>,
      <<"destination_code", "destination_code">>, <<"creation_date", "creation_date">>,
      <<"update_date", "update_date">> >>,
      primary_key |-> {"source_coding_standard", "source_code", "destination_coding_standard", "destination_code"},
      foreign_keys |-> {},
      not_nullable |-> {},
      synonyms |-> <<>>,
      relationships |-> <<>>,
      proxies |-> <<>>,
      properties |-> <<>>,
      other |-> {},
      private |-> {"__tablename__"}],
     [name |-> "Facility", tablename |-> "facility",
      columns |-> << <<"code", "code">>, <<"pkb_out", "pkb_out">>, <<"pkb_in", "pkb_in">>,
      <<"pkb_msg_exclusions", "pkb_msg_exclusions">> >>,
      primary_key |-> {"code"},
      foreign_keys |-> {},
      not_nullable |-> {},
      synonyms |-> <<>>,
      relationships |-> << [key |-> "code_info", argument |-> "Code", cascade |-> {}, backref |-> "", back_populates |-> "", uselist |-> "default", viewonly |-> FALSE,
      foreign_keys |-> "", secondary |-> "", primaryjoin |-> << <<"literal", "RR1+", "coding_standard">>, <<"foreign", "code", "code">> >>] >>,
      proxies |-> << <<"description", "code_info", "description">> >>,
      properties |-> <<>>,
      other |-> {},
      private |-> {"__tablename__"}],
     [name |-> "RRCodes", tablename |-> "rr_codes",
      columns |-> << <<"id", "id">>, <<"rr_code", "rr_code">>, <<"description_1", "description_1">>,
      <<"description_2", "description_2">>, <<"description_3", "description_3">>,
      <<"old_value", "old_value">>, <<"old_value_2", "old_value_2">>,
      <<"new_value", "new_value">> >>,
      primary_key |-> {"id", "rr_code"},
      foreign_keys |-> {},
      not_nullable |-> {},
      synonyms |-> <<>>,
      relationships |-> <<>>,
      proxies |-> <<>>,
      properties |-> <<>>,
      other |-> {},
      private |-> {"__tablename__", "__table_args__"}],
     [name |-> "Locations", tablename |-> "locations",
      columns |-> << <<"centre_code", "centre_code">>, <<"centre_name", "centre_name">>,
      <<"country_code", "country_code">>, <<"region_code", "region_code">>,
      <<"paed_unit", "paed_unit">> >>,
      primary_key |-> {"centre_code"},
      foreign_keys |-> {},
      not_nullable |-> {},
      synonyms |-> <<>>,
      relationships |-> <<>>,
      proxies |-> <<>>,
      properties |-> <<>>,
      other |-> {},
      private |-> {"__tablename__"}],
     [name |-> "RRDataDefinition", tablename |-> "rr_data_definition",
      columns |-> << <<"upload_key", "upload_key">>, <<"table_name", "table_name">>,
      <<"feild_name", "feild_name">>, <<"code_id", "code_id">>, <<"mandatory", "mandatory">>,
      <<"code_type", "type">>, <<"alt_constraint", "alt_constraint">>,
      <<"alt_desc", "alt_desc">>, <<"extra_val", "extra_val">>, <<"error_type", "error_type">>,
      <<"paed_mand", "paed_mand">>, <<"ckd5_mand_numeric", "ckd5_mand_numeric">>,
      <<"dependant_field", "dependant_field">>, <<"alt_validation", "alt_validation">>,
      <<"file_prefix", "file_prefis">>, <<"load_min", "load_min">>, <<"load_max", "load_max">>,
      <<"remove_min", "remove_min">>, <<"remove_max", "remove_max">>, <<"in_month", "in_month">>,
      <<"aki_mand", "aki_mand">>, <<"rrt_mand", "rrt_mand">>, <<"cons_mand", "cons_mand">>,
      <<"ckd4_mand", "ckd4_mand">>, <<"valid_before_dob", "valid_before_dob">>,
      <<"valid_after_dod", "valid_after_dod">>, <<"in_quarter", "in_quarter">> >>,
      primary_key |-> {"upload_key"},
      foreign_keys |-> {},
      not_nullable |-> {},
      synonyms |-> <<>>,
      relationships |-> <<>>,
      proxies |-> <<>>,
      properties |-> <<>>,
      other |-> {},
      private |-> {"__tablename__"}],
     [name |-> "ModalityCodes", tablename |-> "modality_codes",
      columns |-> << <<"registry_code", "registry_code">>, <<"registry_code_desc", "registry_code_desc">>,
      <<"registry_code_type", "registry_code_type">>, <<"acute", "acute">>,
      <<"transfer_in", "transfer_in">>, <<"ckd", "ckd">>, <<"cons", "cons">>, <<"rrt", "rrt">>,
      <<"equiv_modality", "equiv_modality">>, <<"end_of_care", "end_of_care">>,
      <<"is_imprecise", "is_imprecise">>, <<"nhsbt_transplant_type", "nhsbt_transplant_type">>,
      <<"transfer_out", "transfer_out">> >>,
      primary_key |-> {"registry_code"},
      foreign_keys |-> {},
      not_nullable |-> {},
      synonyms |-> <<>>,
      relationships |-> <<>>,
      proxies |-> <<>>,
      properties |-> <<>>,
      other |-> {},
      private |-> {"__tablename__"}],
     [name |-> "Satellite_map", tablename |-> "satellite_map",
      columns |-> << <<"satellite_code", "satellite_code">>, <<"main_unit_code", "main_unit_code">>,
      <<"creation_date", "creation_date">>, <<"update_date", "update_date">> >>,
      primary_key |-> {"satellite_code", "main_unit_code"},
      foreign_keys |-> {},
      not_nullable |-> {},
      synonyms |-> <<>>,
      relationships |-> <<>>,
      proxies |-> <<>>,
      properties |-> <<>>,
      other |-> {},
      private |-> {"__tablename__"}] >>

\* ----------------------------------------------------------------------
\* Class-level attribute tables
\* ----------------------------------------------------------------------
Keys(pairs) == {p[1] : p \in Range(pairs)}
ColumnKeys(cls) == Keys(cls.columns)
SynonymKeys(cls) == Keys(cls.synonyms)
RelationshipKeys(cls) == {r.key : r \in Range(cls.relationships)}
ProxyKeys(cls) == Keys(cls.proxies)
PropertyKeys(cls) == Range(cls.properties)

\* the names a class body binds that do not start with an underscore
PublicNames(cls) ==
  ColumnKeys(cls) \cup SynonymKeys(cls) \cup RelationshipKeys(cls)
    \cup ProxyKeys(cls) \cup PropertyKeys(cls)

\* cls.__dict__.keys(): the mapped attributes, the other public names the
\* class body binds (plain values, methods) and the underscore names
ClassDictKeys(cls) == PublicNames(cls) \cup cls.other \cup cls.private

\* the attribute a synonym names: synonym(target)
SynonymTarget(cls, a) == (CHOOSE p \in Range(cls.synonyms) : p[1] = a)[2]

\* the attributes a synonym may legitimately name: stored or computed ones
StoredOrComputed(cls) ==
  ColumnKeys(cls) \cup RelationshipKeys(cls) \cup ProxyKeys(cls) \cup PropertyKeys(cls)

HasClass(classes, n) == \E i \in DOMAIN classes : classes[i].name = n
ClassNamed(classes, n) == classes[CHOOSE i \in DOMAIN classes : classes[i].name = n]

\* ----------------------------------------------------------------------
\* Schema import: the class statements of a module run in order; the
\* declarative base maps each class as it is defined.  synonym() records the
\* target name and is not resolved while the class is mapped.
\* ----------------------------------------------------------------------
Modules == [ukrdc |-> ukrdc_classes, empi |-> empi_classes, xmlarchive |-> xmlarchive_classes]
ModuleNames == DOMAIN Modules

ImportInit == mapped = [m \in ModuleNames |-> 0]

ImportClass(m) ==
  /\ mapped[m] < Len(Modules[m])
  /\ mapped' = [mapped EXCEPT ![m] = @ + 1]

\* the classes mapped so far
Loaded(m) == {Modules[m][i] : i \in 1..mapped[m]}
LoadedClasses == UNION {Loaded(m) : m \in ModuleNames}

SpecImportInit ==
  /\ ImportInit
  /\ cpc = "idle" /\ ci = 0 /\ rot = 0 /\ kj = 0 /\ failure = <<>>
  /\ ent = <<>> /\ focus = <<>> /\ objs = <<>> /\ last = <<>>
  /\ scope = <<>> /\ db = {} /\ dbLast = <<>>
  /\ catalog = {} /\ catLast = <<>>

SpecImportNext ==
  \E m \in ModuleNames :
    ImportClass(m) /\ UNCHANGED <<compatVars, aliasVars, dbVars, catVars>>

SpecImport == SpecImportInit /\ [][SpecImportNext]_vars

\* ----------------------------------------------------------------------
\* tests/test_v1_compat.py
\* ----------------------------------------------------------------------
\* v1.<name>: a class of tests/ukrdc_v1.py
v1(n) == ClassNamed(v1_classes, n)

COMP ==
  << <<"PatientRecord", v1("PatientRecord")>>, <<"Patient", v1("Patient")>>,
     <<"CauseOfDeath", v1("CauseOfDeath")>>, <<"FamilyDoctor", v1("FamilyDoctor")>>,
     <<"GPInfo", v1("GPInfo")>>, <<"SocialHistory", v1("SocialHistory")>>,
     <<"FamilyHistory", v1("FamilyHistory")>>, <<"Observation", v1("Observation")>>,
     <<"OptOut", v1("OptOut")>>, <<"Allergy", v1("Allergy")>>,
     <<"Diagnosis", v1("Diagnosis")>>, <<"RenalDiagnosis", v1("RenalDiagnosis")>>,
     <<"DialysisSession", v1("DialysisSession")>>, <<"Transplant", v1("Transplant")>>,
     <<"Procedure", v1("Procedure")>>, <<"Encounter", v1("Encounter")>>,
     <<"ProgramMembership", v1("ProgramMembership")>>,
     <<"ClinicalRelationship", v1("ClinicalRelationship")>>, <<"Name", v1("Name")>>,
     <<"PatientNumber", v1("PatientNumber")>>, <<"Address", v1("Address")>>,
     <<"ContactDetail", v1("ContactDetail")>>, <<"Medication", v1("Medication")>>,
     <<"Survey", v1("Survey")>>, <<"Question", v1("Question")>>, <<"Score", v1("Score")>>,
     <<"Level", v1("Level")>>, <<"Document", v1("Document")>>, <<"LabOrder", v1("LabOrder")>>,
     <<"ResultItem", v1("ResultItem")>>, <<"PVData", v1("PVData")>>,
     <<"PVDelete", v1("PVDelete")>>, <<"Treatment", v1("Treatment")>>, <<"Code", v1("Code")>>,
     <<"CodeExclusion", v1("CodeExclusion")>>, <<"CodeMap", v1("CodeMap")>>,
     <<"Facility", v1("Facility")>>, <<"RRCodes", v1("RRCodes")>>,
     <<"Locations", v1("Locations")>>, <<"RRDataDefinition", v1("RRDataDefinition")>>,
     <<"ModalityCodes", v1("ModalityCodes")>> >>

\* Revisions of the current RRDataDefinition in which the misspelt column
\* feild_name has been renamed to field_name: with the alias
\* feild_name = synonym("field_name") kept, with the alias removed, and with
\* field_name bound to a plain value instead of a mapped attribute
Revisions == {"alias", "removed", "plain"}

Revise(cls, old, new, kind) ==
  LET i == CHOOSE j \in DOMAIN cls.columns : cls.columns[j][1] = old
      renamed == [cls.columns EXCEPT ![i] = <<new, new>>]
      dropped == SubSeq(cls.columns, 1, i - 1) \o SubSeq(cls.columns, i + 1, Len(cls.columns))
  IN [cls EXCEPT !.columns = IF kind = "plain" THEN dropped ELSE renamed,
                 !.synonyms = IF kind = "alias" THEN Append(@, <<old, new>>) ELSE @,
                 !.other = IF kind = "plain" THEN @ \cup {new} ELSE @]

RevisedSchema ==
  [kind \in Revisions |->
     [i \in DOMAIN ukrdc_classes |->
        IF ukrdc_classes[i].name = "RRDataDefinition"
        THEN Revise(ukrdc_classes[i], "feild_name", "field_name", kind)
        ELSE ukrdc_classes[i]]]

\* the current schema, imported as v2: ukrdc.py as it stands, or the revision
\* of it that the run is given
v2 == IF focus = <<>> THEN ukrdc_classes ELSE RevisedSchema[focus[3]]

\* k.startswith("_") for the names a class body binds
StartsWithUnderscore(obj, k) == k \in obj.private

field_keys(obj) == {k \in ClassDictKeys(obj) : ~StartsWithUnderscore(obj, k)}

\* The for loop visits the key set in an order the language leaves open; the
\* model walks the names in class-body order starting from any position.
KeySeq(obj) ==
  LET public == field_keys(obj)
  IN SelectSeq([i \in 1..Len(obj.columns) |-> obj.columns[i][1]]
              \o [i \in 1..Len(obj.relationships) |-> obj.relationships[i].key]
              \o [i \in 1..Len(obj.proxies) |-> obj.proxies[i][1]]
              \o obj.properties,
            LAMBDA k : k \in public)

\* hasattr(cls, k) on a mapped class
hasattr(cls, k) == k \in ClassDictKeys(cls)

\* isinstance(getattr(cls, k), (InspectionAttr, AssociationProxy,
\*                              ColumnAssociationProxyInstance, property))
IsValidAttribute(cls, k) ==
  k \in ColumnKeys(cls) \cup SynonymKeys(cls) \cup RelationshipKeys(cls)
          \cup ProxyKeys(cls) \cup PropertyKeys(cls)

\* the name of the table column an attribute name of a mapped class reads
\* and writes: the column's own name, or that of the attribute a synonym
\* forwards to; None when the name reaches no column
RECURSIVE ColumnName(_, _)
ColumnName(cls, n) ==
  IF n \in SynonymKeys(cls) THEN ColumnName(cls, SynonymTarget(cls, n))
  ELSE IF n \in ColumnKeys(cls)
  THEN cls.columns[CHOOSE i \in DOMAIN cls.columns : cls.columns[i][1] = n][2]
  ELSE None

CompatInit ==
  /\ cpc = "loop"
  /\ ci = 1
  /\ rot \in 0..(Len(KeySeq(COMP[1][2])) - 1)
  /\ kj = 0
  /\ failure = <<>>

\* one iteration of the inner loop (and the step to the next class or the
\* end of the test when the class has no key left)
test_v1_compat_patientrecord ==
  /\ cpc = "loop"
  /\ LET name == COMP[ci][1]
         v1_cls == COMP[ci][2]
         keys == KeySeq(v1_cls)
         k == keys[((rot + kj) % Len(keys)) + 1]
     IN IF ~HasClass(v2, name)
        THEN /\ cpc' = "AttributeError"
             /\ failure' = <<name, "", "no such class in v2">>
             /\ UNCHANGED <<ci, rot, kj>>
        ELSE LET v2_cls == ClassNamed(v2, name)
                 missing == IF k = "feild_name"
                            THEN ~hasattr(v2_cls, "field_name")
                            ELSE ~hasattr(v2_cls, k)
                 invalid == k # "feild_name" /\ ~IsValidAttribute(v2_cls, k)
             IN IF missing
                THEN /\ cpc' = "AssertionError"
                     /\ failure' = <<name, IF k = "feild_name" THEN "field_name" ELSE k,
                                     "not found in v2">>
                     /\ UNCHANGED <<ci, rot, kj>>
                ELSE IF invalid
                THEN /\ cpc' = "AssertionError"
                     /\ failure' = <<name, k, "is not a valid attribute">>
                     /\ UNCHANGED <<ci, rot, kj>>
                ELSE IF kj + 1 < Len(keys)
                THEN /\ kj' = kj + 1
                     /\ UNCHANGED <<cpc, ci, rot, failure>>
                ELSE IF ci < Len(COMP)
                THEN /\ ci' = ci + 1
                     /\ kj' = 0
                     /\ rot' \in 0..(Len(KeySeq(COMP[ci + 1][2])) - 1)
                     /\ UNCHANGED <<cpc, failure>>
                ELSE /\ cpc' = "passed"
                     /\ UNCHANGED <<ci, rot, kj, failure>>

SpecCompatInit ==
  /\ CompatInit
  /\ mapped = [m \in ModuleNames |-> Len(Modules[m])]
  /\ ent = <<>> /\ focus = <<>> /\ objs = <<>> /\ last = <<>>
  /\ scope = <<>> /\ db = {} /\ dbLast = <<>>
  /\ catalog = {} /\ catLast = <<>>

SpecCompatNext ==
  test_v1_compat_patientrecord /\ UNCHANGED <<importVars, aliasVars, dbVars, catVars>>

SpecCompat == SpecCompatInit /\ [][SpecCompatNext]_vars

\* the same test run against a revision of RRDataDefinition
SpecRenameInit ==
  /\ CompatInit
  /\ mapped = [m \in ModuleNames |-> Len(Modules[m])]
  /\ ent = <<"ukrdc", "RRDataDefinition">>
  /\ focus \in {<<"feild_name", "field_name", kind>> : kind \in Revisions}
  /\ objs = <<>> /\ last = <<>>
  /\ scope = <<>> /\ db = {} /\ dbLast = <<>>
  /\ catalog = {} /\ catLast = <<>>

SpecRenameNext ==
  test_v1_compat_patientrecord /\ UNCHANGED <<importVars, aliasVars, dbVars, catVars>>

SpecRename == SpecRenameInit /\ [][SpecRenameNext]_vars

\* C1: the compatibility test passes: every public v1 attribute name is exposed
\* by the v2 class of the same name (field_name standing in for feild_name), so
\* the test never stops on a failed assertion.
C1_CompatCheckPasses == cpc \notin {"AssertionError", "AttributeError"}

\* C4: no loaded schema contains a dangling alias: every synonym of every
\* mapped class names a stored or computed attribute of that same class (a
\* declaration naming a missing target would have been rejected while the class
\* was being defined, so it could never appear among the mapped classes).
C4_NoDanglingAlias ==
  \A c \in LoadedClasses :
    \A p \in Range(c.synonyms) : p[2] \in StoredOrComputed(c)

\* number of synonym dereferences from a name to a name that is not a synonym
RECURSIVE Hops(_, _)
Hops(cls, n) ==
  IF n \in SynonymKeys(cls) THEN 1 + Hops(cls, SynonymTarget(cls, n)) ELSE 0

AttributeError == "AttributeError"
Values == {"x", "y"}
Instances == {1, 2}

RECURSIVE getattr(_, _, _)
getattr(cls, obj, n) ==
  IF n \in SynonymKeys(cls) THEN getattr(cls, obj, SynonymTarget(cls, n))
  ELSE IF n \in DOMAIN obj THEN obj[n]
  ELSE IF n \in ColumnKeys(cls) THEN None
  ELSE AttributeError

RECURSIVE setattr(_, _, _, _)
setattr(cls, obj, n, v) ==
  IF n \in SynonymKeys(cls) THEN setattr(cls, obj, SynonymTarget(cls, n), v)
  ELSE [k \in DOMAIN obj \cup {n} |-> IF k = n THEN v ELSE obj[k]]

\* the declared aliases of a module: <<module, class, alias, target>>
DeclaredAliases(m) ==
  UNION {{<<m, c.name, p[1], p[2]>> : p \in Range(c.synonyms)} : c \in Range(Modules[m])}
AllDeclaredAliases == UNION {DeclaredAliases(m) : m \in ModuleNames}

\* the rename the compatibility test knows about (feild_name -> field_name)
Renames == {<<"ukrdc", "RRDataDefinition", "feild_name", "field_name">>}

EntClass == ClassNamed(Modules[ent[1]], ent[2])

\* an attribute of the class unrelated to the two names being exercised
OtherName(cls, f) ==
  LET busy == {f[1], f[2]} \cup {SynonymTarget(cls, n) : n \in {f[1], f[2]} \cap SynonymKeys(cls)}
      i == CHOOSE j \in 1..Len(cls.columns) :
             /\ cls.columns[j][1] \notin busy
             /\ \A h \in 1..(j - 1) : cls.columns[h][1] \in busy
  IN cls.columns[i][1]

AliasInit ==
  /\ \E p \in AllDeclaredAliases \cup Renames :
       /\ ent = <<p[1], p[2]>>
       /\ focus = <<p[3], p[4]>>
  /\ objs = [i \in Instances |-> <<>>]
  /\ last = <<>>

\* setattr(instance i, n, v) for n one of the two names or the unrelated one
SetAttr(i, n, v) ==
  /\ objs' = [objs EXCEPT ![i] = setattr(EntClass, @, n, v)]
  /\ last' = <<i, n, v>>
  /\ UNCHANGED <<ent, focus>>

SpecAliasInit ==
  /\ AliasInit
  /\ mapped = [m \in ModuleNames |-> Len(Modules[m])]
  /\ cpc = "idle" /\ ci = 0 /\ rot = 0 /\ kj = 0 /\ failure = <<>>
  /\ scope = <<>> /\ db = {} /\ dbLast = <<>>
  /\ catalog = {} /\ catLast = <<>>

SpecAliasNext ==
  \E i \in Instances, v \in Values :
    \E n \in {focus[1], focus[2], OtherName(EntClass, focus)} :
      SetAttr(i, n, v) /\ UNCHANGED <<importVars, compatVars, dbVars, catVars>>

SpecAlias == SpecAliasInit /\ [][SpecAliasNext]_vars

IsDeclaredAlias == <<ent[1], ent[2], focus[1], focus[2]>> \in AllDeclaredAliases

\* C2: RRDataDefinition exposes both feild_name and field_name and both
\* address the same stored value: after any sequence of writes a read through
\* one name returns what a read through the other returns.
C2_FeildNameFieldNameSameValue ==
  (ent = <<"ukrdc", "RRDataDefinition">> /\ focus = <<"feild_name", "field_name">>) =>
    /\ hasattr(EntClass, "feild_name")
    /\ hasattr(EntClass, "field_name")
    /\ \A i \in Instances :
         getattr(EntClass, objs[i], "feild_name") = getattr(EntClass, objs[i], "field_name")

\* C3: alias transparency: for every declared alias a with target c, a read
\* through a and a read through c both return a value and the same one in
\* every state, and after a write of v through a or through c both return v.
C3_AliasTransparency ==
  IsDeclaredAlias =>
    \A i \in Instances :
      LET ra == getattr(EntClass, objs[i], focus[1])
          rc == getattr(EntClass, objs[i], focus[2])
      IN /\ ra # AttributeError
         /\ ra = rc
         /\ (last # <<>> /\ last[1] = i /\ last[2] \in {focus[1], focus[2]}) => ra = last[3]

\* C6: a write through an alias changes exactly the one storage slot (column)
\* the alias denotes on that instance, leaves every other attribute and the
\* other instance unchanged, and gives the state the same write through the
\* canonical name gives.
C6_AliasWriteFrame ==
  [][(IsDeclaredAlias /\ last' # last /\ last'[2] = focus[1]) =>
       LET i == last'[1]
           v == last'[3]
           c == focus[2]
       IN /\ c \in ColumnKeys(EntClass)
          /\ DOMAIN objs'[i] = DOMAIN objs[i] \cup {c}
          /\ objs'[i][c] = v
          /\ \A k \in DOMAIN objs[i] \ {c} : objs'[i][k] = objs[i][k]
          /\ \A j \in Instances \ {i} : objs'[j] = objs[j]
          /\ objs'[i] = setattr(EntClass, objs[i], c, v)]_vars

\* ----------------------------------------------------------------------
\* Registry database (classes of ukrdc.py): rows, foreign keys and the
\* delete cascade the relationship() declarations configure.
\* A row is [t |-> table name, cols |-> key columns], cols giving the value of
\* every primary-key and foreign-key attribute of the class.
\* ----------------------------------------------------------------------
\* SQL NULL in a key column; pid values and row ids are kept apart
NULL == 0
Pids == {101, 102}
MaxId == 2
MaxRows == 3
Ids == 1..MaxId

TableClass(classes, t) ==
  classes[CHOOSE i \in DOMAIN classes : classes[i].tablename = t]

\* the attribute key of the column named colname
ColKeyOf(cls, colname) ==
  cls.columns[CHOOSE i \in DOMAIN cls.columns : cls.columns[i][2] = colname][1]

FkKeys(cls) == {fk[1] : fk \in cls.foreign_keys}
KeyColumns(cls) == cls.primary_key \cup FkKeys(cls)

\* nullable is the default for a column that is not part of the primary key
Nullable(cls, k) == k \notin cls.primary_key /\ k \notin cls.not_nullable

\* the tables of the registry database of the model: the aggregate root and
\* every table with a foreign key
OwnedTables(classes) ==
  {classes[i].tablename : i \in {j \in DOMAIN classes :
      classes[j].name = "PatientRecord" \/ classes[j].foreign_keys # {}}}

\* the foreign key that ties a class to its owner inside the registry
OwnerFk(classes, cls) == CHOOSE fk \in cls.foreign_keys : fk[2] \in OwnedTables(classes)

\* the tables from the aggregate root down to table t, along the foreign keys
RECURSIVE FkChain(_, _)
FkChain(classes, t) ==
  IF TableClass(classes, t).foreign_keys = {} THEN <<t>>
  ELSE Append(FkChain(classes, OwnerFk(classes, TableClass(classes, t))[2]), t)

\* relationship(cls -> argument) joins on the foreign key between the two
\* tables; it is one-to-many when the target table holds the key
OneToManyFks(classes, cls, rel) ==
  IF rel.primaryjoin # <<>> \/ rel.secondary # "" \/ rel.foreign_keys # "" THEN {}
  ELSE {fk \in ClassNamed(classes, rel.argument).foreign_keys : fk[2] = cls.tablename}

\* cascade="all" stands for save-update, merge, refresh-expire, expunge, delete
HasDeleteCascade(rel) == "all" \in rel.cascade \/ "delete" \in rel.cascade

\* the one-to-many relationships of cls numbered js, as
\* <<<<table of cls, foreign key attribute of the target, attribute of cls>>,
\*   target table>>
Links(classes, cls, js) ==
  UNION {{<<fk[2], fk[1], ColKeyOf(cls, fk[3])>> :
            fk \in OneToManyFks(classes, cls, cls.relationships[j])}
           \X {ClassNamed(classes, cls.relationships[j].argument).tablename} : j \in js}

\* the association proxies of cls that read through a many-to-one
\* relationship joined on a foreign key of cls, as <<proxy attribute,
\* <<foreign key attribute, target table, target key attribute>>, attribute
\* of the target>>
ManyToOneProxies(classes, cls) ==
  UNION {{<<cls.proxies[i][1],
            <<fk[1], fk[2], ColKeyOf(TableClass(classes, fk[2]), fk[3])>>,
            cls.proxies[i][3]>> :
            fk \in {x \in cls.foreign_keys :
                      \E j \in DOMAIN cls.relationships :
                        /\ cls.relationships[j].key = cls.proxies[i][2]
                        /\ cls.relationships[j].primaryjoin = <<>>
                        /\ ClassNamed(classes, cls.relationships[j].argument).tablename = x[2]}} :
           i \in DOMAIN cls.proxies}

\* the values a key column may take on insert
KeyValues(cls, k) ==
  IF \E fk \in cls.foreign_keys : fk[1] = k
  THEN (IF \E fk \in cls.foreign_keys : fk[1] = k /\ fk[2] \in {"patientrecord", "patient"}
        THEN Pids ELSE Ids)
       \cup (IF Nullable(cls, k) THEN {NULL} ELSE {})
  ELSE IF cls.name = "PatientRecord" THEN Pids ELSE Ids

\* what the mapper configures for each owned table of a module: the key
\* columns and their values, the foreign keys as <<attribute, referenced
\* table, referenced attribute>>, the relationships that cascade a delete
\* (cascades) and those that blank the child's foreign key instead (blanks)
Mapper(classes) ==
  [t \in OwnedTables(classes) |->
     [primary_key |-> TableClass(classes, t).primary_key,
      values |-> [k \in KeyColumns(TableClass(classes, t)) |->
                    KeyValues(TableClass(classes, t), k)],
      nullable |-> {k \in KeyColumns(TableClass(classes, t)) :
                      Nullable(TableClass(classes, t), k)},
      foreign_keys |-> {<<fk[1], fk[2], ColKeyOf(TableClass(classes, fk[2]), fk[3])>> :
                          fk \in TableClass(classes, t).foreign_keys},
      chain |-> FkChain(classes, t),
      cascades |-> Links(classes, TableClass(classes, t),
                         {j \in DOMAIN TableClass(classes, t).relationships :
                            HasDeleteCascade(TableClass(classes, t).relationships[j])}),
      blanks |-> Links(classes, TableClass(classes, t),
                       {j \in DOMAIN TableClass(classes, t).relationships :
                          /\ ~HasDeleteCascade(TableClass(classes, t).relationships[j])
                          /\ ~TableClass(classes, t).relationships[j].viewonly}),
      proxies |-> ManyToOneProxies(classes, TableClass(classes, t))]]

Registry == Mapper(ukrdc_classes)
RegistryTables == DOMAIN Registry

FkChains == {Registry[t].chain : t \in RegistryTables \ {"patientrecord"}}

\* the rows of rows_ a foreign key value may refer to
Referenced(rows_, fk, v) == {p \in rows_ : p.t = fk[2] /\ p.cols[fk[3]] = v}

\* every foreign key of every row is NULL or names an existing row
FkIntegrity(rows_) ==
  \A r \in rows_ :
    \A fk \in Registry[r.t].foreign_keys :
      r.cols[fk[1]] # NULL => Referenced(rows_, fk, r.cols[fk[1]]) # {}

\* the rows a one-to-many relationship of row loads
Related(rows_, row, link) ==
  {r \in rows_ : r.t = link[2] /\ r.cols[link[1][2]] = row.cols[link[1][3]]}

\* the objects session.delete(row) marks deleted: the row and, through every
\* relationship that cascades delete, the related rows, transitively
RECURSIVE CascadeDelete(_, _)
CascadeDelete(rows_, row) ==
  {row} \cup
  UNION {UNION {CascadeDelete(rows_, ch) : ch \in Related(rows_, row, link)} :
           link \in Registry[row.t].cascades}

\* the foreign keys of r that the flush blanks: r is related to a deleted row
\* through a one-to-many relationship that neither cascades delete nor is
\* view-only
BlankedKeys(rows_, deleted, r) ==
  {link[1][2] : link \in UNION {{x \in Registry[d.t].blanks : r \in Related(rows_, d, x)} :
                                  d \in deleted}}

BlankKeys(r, keys) ==
  [r EXCEPT !.cols = [k \in DOMAIN r.cols |-> IF k \in keys THEN NULL ELSE r.cols[k]]]

\* the database after session.delete(row) and a flush; <<"error", rows_>> when
\* the flush fails and the transaction is rolled back
FlushDelete(rows_, row) ==
  LET deleted == CascadeDelete(rows_, row)
      after == {BlankKeys(r, BlankedKeys(rows_, deleted, r)) : r \in rows_ \ deleted}
  IN IF \/ \E r \in after : \E k \in DOMAIN r.cols :
              r.cols[k] = NULL /\ k \notin Registry[r.t].nullable
        \/ ~FkIntegrity(after)
     THEN <<"error", rows_>>
     ELSE <<"ok", after>>

RowId(r) == <<r.t, [k \in Registry[r.t].primary_key |-> r.cols[k]]>>

ChildRows == {r \in db : r.t # "patientrecord"}

DbInit ==
  /\ scope \in FkChains
  /\ db = {}
  /\ dbLast = <<>>

\* session.add(cls(**cols)) and a flush for the class of table t: the row is
\* stored when its primary key is new and its foreign keys name existing rows
Insert(t, cols) ==
  LET row == [t |-> t, cols |-> cols]
  IN /\ t # "patientrecord" => Cardinality(ChildRows) < MaxRows
     /\ \A r \in db : RowId(r) # RowId(row)
     /\ FkIntegrity(db \cup {row})
     /\ db' = db \cup {row}
     /\ dbLast' = <<"insert", RowId(row), "ok", {}>>
     /\ UNCHANGED scope

\* session.delete(row) and a flush
Delete(row) ==
  LET res == FlushDelete(db, row)
  IN /\ db' = res[2]
     /\ dbLast' = <<"delete", RowId(row), res[1], {RowId(r) : r \in db \ res[2]}>>
     /\ UNCHANGED scope

\* row.k = v and a flush: the UPDATE is applied when the foreign keys still
\* name existing rows, else the flush fails and is rolled back
Update(row, k, v) ==
  LET new == [row EXCEPT !.cols[k] = v]
      after == (db \ {row}) \cup {new}
  IN /\ v # row.cols[k]
     /\ IF FkIntegrity(after)
        THEN db' = after /\ dbLast' = <<"update", RowId(row), "ok", {k}>>
        ELSE db' = db /\ dbLast' = <<"update", RowId(row), "IntegrityError", {k}>>
     /\ UNCHANGED scope

\* the object the many-to-one relationship behind proxy p of row holds, as a
\* set: empty for None
ProxyTarget(rows_, row, p) ==
  IF row.cols[p[2][1]] = NULL THEN {} ELSE Referenced(rows_, p[2], row.cols[p[2][1]])

\* the value of the attribute a of row: the stored column, or what the
\* association proxy a reads from the related object (None without one)
Attribute(rows_, row, a) ==
  IF a \in DOMAIN row.cols THEN row.cols[a]
  ELSE LET p == CHOOSE x \in Registry[row.t].proxies : x[1] = a
           target == ProxyTarget(rows_, row, p)
       IN IF target = {} THEN NULL ELSE (CHOOSE o \in target : TRUE).cols[p[3]]

TypeError == "TypeError"

\* getattr(row, p): a read of the association proxy p
GetAttribute(row, p) ==
  /\ dbLast' = <<"get", RowId(row), Attribute(db, row, p[1]),
                 {RowId(o) : o \in ProxyTarget(db, row, p)}>>
  /\ UNCHANGED <<db, scope>>

\* setattr(row, p, v) and a flush: the proxy sets the attribute on the related
\* object; without one it calls the target class with the value as its only
\* positional argument, which the declarative constructor rejects
SetAttribute(row, p, v) ==
  LET target == ProxyTarget(db, row, p)
      old == CHOOSE o \in target : TRUE
      after == (db \ {old}) \cup {[old EXCEPT !.cols[p[3]] = v]}
  IN /\ IF target = {}
        THEN db' = db /\ dbLast' = <<"set", RowId(row), TypeError, {}>>
        ELSE IF FkIntegrity(after)
        THEN db' = after /\ dbLast' = <<"set", RowId(row), "ok", {RowId(old)}>>
        ELSE db' = db /\ dbLast' = <<"set", RowId(row), "IntegrityError", {RowId(old)}>>
     /\ UNCHANGED scope

SpecDbInit ==
  /\ DbInit
  /\ mapped = [m \in ModuleNames |-> Len(Modules[m])]
  /\ cpc = "idle" /\ ci = 0 /\ rot = 0 /\ kj = 0 /\ failure = <<>>
  /\ ent = <<>> /\ focus = <<>> /\ objs = <<>> /\ last = <<>>
  /\ catalog = {} /\ catLast = <<>>

SpecDbNext ==
  \/ \E t \in Range(scope) :
       \E cols \in [DOMAIN Registry[t].values -> Pids \cup Ids \cup {NULL}] :
         /\ \A k \in DOMAIN cols : cols[k] \in Registry[t].values[k]
         /\ Insert(t, cols)
         /\ UNCHANGED <<importVars, compatVars, aliasVars, catVars>>
  \/ \E row \in db :
       Delete(row) /\ UNCHANGED <<importVars, compatVars, aliasVars, catVars>>
  \/ \E row \in db :
       \E k \in DOMAIN row.cols \ Registry[row.t].primary_key :
         \E v \in Registry[row.t].values[k] :
           Update(row, k, v) /\ UNCHANGED <<importVars, compatVars, aliasVars, catVars>>
  \/ \E row \in db :
       \E p \in Registry[row.t].proxies :
         GetAttribute(row, p) /\ UNCHANGED <<importVars, compatVars, aliasVars, catVars>>
  \/ \E row \in db :
       \E p \in Registry[row.t].proxies :
         \E v \in Registry[p[2][2]].values[p[3]] :
           SetAttribute(row, p, v) /\ UNCHANGED <<importVars, compatVars, aliasVars, catVars>>

SpecDb == SpecDbInit /\ [][SpecDbNext]_vars

\* the pid of the PatientRecord a row belongs to, following the foreign keys
\* up to the aggregate root; NULL for a row that hangs on no root
RECURSIVE OwnerPid(_, _)
OwnerPid(rows_, r) ==
  IF r.t = "patientrecord" THEN r.cols["pid"]
  ELSE LET chain == Registry[r.t].chain
           fk == CHOOSE x \in Registry[r.t].foreign_keys : x[2] = chain[Len(chain) - 1]
           parents == Referenced(rows_, fk, r.cols[fk[1]])
       IN IF r.cols[fk[1]] = NULL \/ parents = {} THEN NULL
          ELSE OwnerPid(rows_, CHOOSE p \in parents : TRUE)

C7_ChildTables ==
  {"patient", "laborder", "observation", "socialhistory", "familyhistory", "allergy",
   "diagnosis", "causeofdeath", "renaldiagnosis", "medication", "dialysissession",
   "vascularaccess", "procedure", "document", "encounter", "transplantlist", "treatment",
   "programmembership", "transplant", "optout", "clinicalrelationship", "survey", "pvdata",
   "pvdelete", "name", "patientnumber", "address", "contactdetail", "familydoctor",
   "resultitem", "question", "score", "level"}

\* C7: session.delete of a PatientRecord succeeds and removes every row the
\* record owns, transitively: afterwards no row of the child tables (direct
\* children, the Patient's names, numbers, addresses, contact details and family
\* doctor, the lab orders' result items, the surveys' questions, scores and
\* levels) belongs to that pid, and each of those tables is one the root owns.
C7_DeleteRemovesOwnedRows ==
  [][(dbLast' # dbLast /\ dbLast'[1] = "delete" /\ dbLast'[2][1] = "patientrecord") =>
       LET p == dbLast'[2][2]["pid"]
           owned == {r \in db : OwnerPid(db, r) = p}
       IN /\ dbLast'[3] = "ok"
          /\ \A r \in owned : \A x \in db' : RowId(x) # RowId(r)
          /\ \A x \in db' : x.t \in C7_ChildTables \cup {"patientrecord"} => OwnerPid(db', x) # p
          /\ \A t \in C7_ChildTables :
               t \in RegistryTables /\ Head(Registry[t].chain) = "patientrecord"]_vars

\* a root owning a lab order with two result items has just been deleted
C7_Witness ==
  /\ dbLast # <<>>
  /\ dbLast[1] = "delete" /\ dbLast[2][1] = "patientrecord" /\ dbLast[3] = "ok"
  /\ Cardinality({i \in dbLast[4] : i[1] = "laborder"}) >= 1
  /\ Cardinality({i \in dbLast[4] : i[1] = "resultitem"}) >= 2
  /\ \A r \in db : r.t \notin {"laborder", "resultitem"}

\* ----------------------------------------------------------------------
\* The Code catalog (table code_list) and the coded-reference
\* relationships: relationship("Code", primaryjoin=...) on Facility, PVData
\* and Treatment.  The catalog is filled by session.add(Code(...)); a
\* coded reference is loaded on attribute access with the join condition
\* of its primaryjoin.
\* ----------------------------------------------------------------------
MaxCodes == 2
CodingStandards == {"RR1+", "PV_RRTSTATUS", "PV_TPSTATUS", "LOCAL"}
CodeValues == {"HOSP01", "UNKNOWN99"}
Descriptions == {"Example Hospital", "Unknown"}

Code == ClassNamed(ukrdc_classes, "Code")

\* the columns of Code the model carries: the primary key and the description
\* the association proxies read
CodeColumns == Code.primary_key \cup {"description"}

CodeRows ==
  {r \in [CodeColumns -> CodingStandards \cup CodeValues \cup Descriptions] :
     /\ r["coding_standard"] \in CodingStandards
     /\ r["code"] \in CodeValues
     /\ r["description"] \in Descriptions}

PrimaryKeyOf(cls, row) == [k \in cls.primary_key |-> row[k]]

\* the relationships to Code declared with a primaryjoin: <<class index,
\* relationship index>> in ukrdc_classes
CodedReferences ==
  UNION {{<<i, j>> : j \in {x \in DOMAIN ukrdc_classes[i].relationships :
                              /\ ukrdc_classes[i].relationships[x].argument = "Code"
                              /\ ukrdc_classes[i].relationships[x].primaryjoin # <<>>}} :
           i \in DOMAIN ukrdc_classes}

\* the column behind an attribute name used in a join condition
JoinColumn(cls, n) == IF n \in SynonymKeys(cls) THEN SynonymTarget(cls, n) ELSE n

\* the columns of the declaring class that the primaryjoin marks foreign()
ForeignColumns(cls, rel) ==
  {JoinColumn(cls, rel.primaryjoin[i][2]) :
     i \in {x \in DOMAIN rel.primaryjoin : rel.primaryjoin[x][1] = "foreign"}}

\* the direction of a relationship with annotated primaryjoin: many-to-one
\* when the foreign() columns are columns of the declaring class
IsManyToOne(cls, rel) ==
  ForeignColumns(cls, rel) # {} /\ ForeignColumns(cls, rel) \subseteq ColumnKeys(cls)

\* uselist left unset: a scalar for many-to-one, a list otherwise
UseList(cls, rel) ==
  IF rel.uselist = "default" THEN ~IsManyToOne(cls, rel) ELSE rel.uselist = "True"

\* the primaryjoin as the mapper configures it: attribute names replaced by
\* the columns behind them
ConfiguredJoin(cls, rel) ==
  [i \in DOMAIN rel.primaryjoin |->
     IF rel.primaryjoin[i][1] = "foreign"
     THEN <<"foreign", JoinColumn(cls, rel.primaryjoin[i][2]), rel.primaryjoin[i][3]>>
     ELSE rel.primaryjoin[i]]

\* the rows of rows_ that satisfy the join for the instance obj; a comparison
\* with NULL (None) is never true
JoinRows(join, obj, rows_) ==
  {r \in rows_ :
     \A i \in DOMAIN join :
       IF join[i][1] = "literal" THEN r[join[i][3]] = join[i][2]
       ELSE obj[join[i][2]] # None /\ r[join[i][3]] = obj[join[i][2]]}

\* the instances of the declaring class, as far as the join reads them
Referrers(cls, rel) ==
  LET join == ConfiguredJoin(cls, rel)
  IN {o \in [ForeignColumns(cls, rel) -> CodingStandards \cup CodeValues \cup {None}] :
        \A i \in DOMAIN join :
          join[i][1] = "foreign" =>
            LET k == join[i][2]
            IN /\ o[k] = None => k \notin cls.primary_key /\ k \notin cls.not_nullable
               /\ o[k] # None =>
                    o[k] \in (IF join[i][3] = "coding_standard" THEN CodingStandards
                              ELSE CodeValues)}

\* per coded reference: who declares it, its configured join, whether the
\* attribute is a list, and the referring instances
CodedReference ==
  [ref \in CodedReferences |->
     LET cls == ukrdc_classes[ref[1]]
         rel == cls.relationships[ref[2]]
     IN [name |-> <<cls.name, rel.key>>,
         join |-> ConfiguredJoin(cls, rel),
         uselist |-> UseList(cls, rel),
         referrers |-> Referrers(cls, rel)]]

CatalogInit ==
  /\ catalog = {}
  /\ catLast = <<>>

\* session.add(Code(**row)) and a flush: the INSERT is refused when a row with
\* the same primary key exists, and the failed flush is rolled back
InsertCode(row) ==
  IF \E r \in catalog : PrimaryKeyOf(Code, r) = PrimaryKeyOf(Code, row)
  THEN /\ catLast' = <<"insert", row, "IntegrityError">>
       /\ UNCHANGED catalog
  ELSE /\ Cardinality(catalog) < MaxCodes
       /\ catalog' = catalog \cup {row}
       /\ catLast' = <<"insert", row, "ok">>

\* reading the relationship attribute ref of the instance obj: the lazy load
\* selects the Code rows of the join; a scalar attribute takes one of the rows
\* returned (None when there is none), a list takes them all
LoadRelationship(ref, obj) ==
  LET rows == JoinRows(CodedReference[ref].join, obj, catalog)
  IN /\ \E value \in SUBSET rows :
          /\ IF CodedReference[ref].uselist THEN value = rows
             ELSE Cardinality(value) = (IF rows = {} THEN 0 ELSE 1)
          /\ catLast' = <<"load", CodedReference[ref].name, obj, rows, value>>
     /\ UNCHANGED catalog

\* the association proxies of a class that read through the relationship
\* ref: <<proxy attribute, attribute of the target>>
CodedProxies(classes, ref) ==
  {<<classes[ref[1]].proxies[i][1], classes[ref[1]].proxies[i][3]>> :
     i \in {x \in DOMAIN classes[ref[1]].proxies :
              classes[ref[1]].proxies[x][2] = classes[ref[1]].relationships[ref[2]].key}}

CodedProxy == [ref \in CodedReferences |-> CodedProxies(ukrdc_classes, ref)]

\* the values the relationship attribute ref of obj may hold once loaded from
\* rows_, as the set of rows it holds (empty: None or an empty list)
LoadedValues(ref, obj, rows_) ==
  {value \in SUBSET JoinRows(CodedReference[ref].join, obj, rows_) :
     IF CodedReference[ref].uselist
     THEN value = JoinRows(CodedReference[ref].join, obj, rows_)
     ELSE Cardinality(value) =
            (IF JoinRows(CodedReference[ref].join, obj, rows_) = {} THEN 0 ELSE 1)}

\* the getter of association_proxy(relationship, attr): on a scalar target
\* the attribute of the target, None when the target is None; on a list the
\* attribute of each element
ProxyGet(uselist, value, attr) ==
  IF uselist THEN {r[attr] : r \in value}
  ELSE IF value = {} THEN None
  ELSE (CHOOSE r \in value : TRUE)[attr]

\* reading the proxy attribute p of obj: loads the relationship, then reads
\* the attribute of the target
ReadProxy(ref, p, obj) ==
  /\ \E value \in LoadedValues(ref, obj, catalog) :
       catLast' = <<"get", <<CodedReference[ref].name[1], p[1]>>, obj, value,
                    ProxyGet(CodedReference[ref].uselist, value, p[2])>>
  /\ UNCHANGED catalog

\* the setter of association_proxy(relationship, attr) on a scalar target,
\* followed by a flush: with a target the attribute of the target is set and
\* the flush updates its row; with no target the proxy builds one with
\* Code(v), which the declarative constructor (keyword arguments only) refuses
SetProxy(ref, p, obj, v) ==
  \E value \in LoadedValues(ref, obj, catalog) :
    IF value = {}
    THEN /\ catLast' = <<"set", <<CodedReference[ref].name[1], p[1]>>, obj, v, TypeError>>
         /\ UNCHANGED catalog
    ELSE /\ catalog' = (catalog \ value) \cup {[r EXCEPT ![p[2]] = v] : r \in value}
         /\ catLast' = <<"set", <<CodedReference[ref].name[1], p[1]>>, obj, v, "ok">>

\* whether an object assigned to the relationship is added to the session
\* with its parent: the save-update cascade, on by default, off for viewonly
SaveUpdateCascade(rel) ==
  /\ ~rel.viewonly
  /\ rel.cascade = {} \/ "all" \in rel.cascade \/ "save-update" \in rel.cascade

CodedCascade ==
  [ref \in CodedReferences |->
     SaveUpdateCascade(ukrdc_classes[ref[1]].relationships[ref[2]])]

\* obj.<relationship> = Code(**row) for a new Code object, followed by a
\* flush: the save-update cascade adds the object to the session and the flush
\* inserts its row, refused when the primary key exists
AssignRelationship(ref, obj, row) ==
  IF ~CodedCascade[ref]
  THEN /\ catLast' = <<"assign", CodedReference[ref].name, obj, row, "not persisted">>
       /\ UNCHANGED catalog
  ELSE IF \E r \in catalog : PrimaryKeyOf(Code, r) = PrimaryKeyOf(Code, row)
  THEN /\ catLast' = <<"assign", CodedReference[ref].name, obj, row, "IntegrityError">>
       /\ UNCHANGED catalog
  ELSE /\ Cardinality(catalog) < MaxCodes
       /\ catalog' = catalog \cup {row}
       /\ catLast' = <<"assign", CodedReference[ref].name, obj, row, "ok">>

SpecCatalogInit ==
  /\ CatalogInit
  /\ mapped = [m \in ModuleNames |-> Len(Modules[m])]
  /\ cpc = "idle" /\ ci = 0 /\ rot = 0 /\ kj = 0 /\ failure = <<>>
  /\ ent = <<>> /\ focus = <<>> /\ objs = <<>> /\ last = <<>>
  /\ scope = <<>> /\ db = {} /\ dbLast = <<>>

SpecCatalogNext ==
  \/ \E row \in CodeRows :
       InsertCode(row) /\ UNCHANGED <<importVars, compatVars, aliasVars, dbVars>>
  \/ \E ref \in CodedReferences :
       \E obj \in CodedReference[ref].referrers :
         LoadRelationship(ref, obj) /\ UNCHANGED <<importVars, compatVars, aliasVars, dbVars>>
  \/ \E ref \in CodedReferences :
       \E p \in CodedProxy[ref], obj \in CodedReference[ref].referrers :
         ReadProxy(ref, p, obj) /\ UNCHANGED <<importVars, compatVars, aliasVars, dbVars>>

SpecCatalog == SpecCatalogInit /\ [][SpecCatalogNext]_vars

\* ----------------------------------------------------------------------
\* Writes through a coded reference: one entity instance (objs[1], of class
\* ent, exercised through the relationship focus[1] and its proxy focus[2])
\* in a session over a catalog that earlier inserts have filled.
\* ----------------------------------------------------------------------
FocusRef == CHOOSE ref \in CodedReferences : CodedReference[ref].name = <<ent[2], focus[1]>>
FocusProxy == CHOOSE p \in CodedProxy[FocusRef] : p[1] = focus[2]

\* the catalogs a sequence of inserts can leave behind
Catalogs ==
  {c \in SUBSET CodeRows :
     /\ Cardinality(c) <= MaxCodes
     /\ \A a, b \in c : PrimaryKeyOf(Code, a) = PrimaryKeyOf(Code, b) => a = b}

\* the foreign() columns of the parent after the flush has copied them from
\* the Code object assigned to the relationship
Synchronize(join, obj, row) ==
  [k \in DOMAIN obj |->
     IF \E i \in DOMAIN join : join[i][1] = "foreign" /\ join[i][2] = k
     THEN row[join[CHOOSE i \in DOMAIN join : join[i][1] = "foreign" /\ join[i][2] = k][3]]
     ELSE obj[k]]

CodedWriteInit ==
  /\ \E ref \in CodedReferences :
       \E p \in CodedProxy[ref], obj \in CodedReference[ref].referrers :
         /\ ent = <<"ukrdc", CodedReference[ref].name[1]>>
         /\ focus = <<CodedReference[ref].name[2], p[1]>>
         /\ objs = <<obj>>
  /\ last = <<>>
  /\ catalog \in Catalogs
  /\ catLast = <<>>

SpecCodedWriteInit ==
  /\ CodedWriteInit
  /\ mapped = [m \in ModuleNames |-> Len(Modules[m])]
  /\ cpc = "idle" /\ ci = 0 /\ rot = 0 /\ kj = 0 /\ failure = <<>>
  /\ scope = <<>> /\ db = {} /\ dbLast = <<>>

\* whether a delete of the parent reaches the Code object of each coded
\* reference: only through a delete cascade
CodedDeleteCascade ==
  [ref \in CodedReferences |->
     HasDeleteCascade(ukrdc_classes[ref[1]].relationships[ref[2]])]

\* the roots whose delete reaches an instance of the class: the instance
\* itself and, for a table owned by the aggregate, its PatientRecord
DeleteRoots ==
  [ref \in CodedReferences |->
     {ukrdc_classes[ref[1]].tablename} \cup
       (IF ukrdc_classes[ref[1]].tablename \in RegistryTables
        THEN {Head(Registry[ukrdc_classes[ref[1]].tablename].chain)} ELSE {})]

\* session.delete(root) and a flush, root being the instance or the
\* PatientRecord that owns it: the instance is deleted and, where the
\* relationship cascades delete, the Code object it holds
DeleteEntity(ref, obj, root) ==
  \E value \in LoadedValues(ref, obj, catalog) :
    /\ catalog' = IF CodedDeleteCascade[ref] THEN catalog \ value ELSE catalog
    /\ catLast' = <<"delete", <<CodedReference[ref].name[1], root>>, obj, value, "ok">>

\* a faulty declaration: the description attributes mapped onto the code columns
StoredDescription_codecolumn ==
  [admit_reason_code_item |-> "admitreasoncode",
   discharge_reason_code_item |-> "dischargereasoncode"]

\* the stored description column that goes with each coded reference of
\* Treatment (free text kept on the treatment row itself)
StoredDescription ==
  [admit_reason_code_item |-> "admitreasondesc",
   discharge_reason_code_item |-> "dischargereasondesc"]

\* obj.k = v and a flush, k a mapped column of the instance's class: the
\* UPDATE touches the instance's own row only
WriteColumn(cls, obj, k, v) ==
  /\ k \in ColumnKeys(cls)
  /\ getattr(cls, obj, k) # v
  /\ objs' = <<setattr(cls, obj, k, v)>>
  /\ catLast' = <<"write", <<cls.name, k>>, obj, v, "ok">>
  /\ UNCHANGED catalog

SpecCodedWriteNext ==
  \/ /\ objs # <<>>
     /\ LoadRelationship(FocusRef, objs[1])
     /\ UNCHANGED <<importVars, compatVars, aliasVars, dbVars>>
  \/ /\ objs # <<>>
     /\ ReadProxy(FocusRef, FocusProxy, objs[1])
     /\ UNCHANGED <<importVars, compatVars, aliasVars, dbVars>>
  \/ \E v \in Descriptions :
       /\ objs # <<>>
       /\ SetProxy(FocusRef, FocusProxy, objs[1], v)
       /\ UNCHANGED <<importVars, compatVars, aliasVars, dbVars>>
  \/ \E row \in CodeRows :
       /\ objs # <<>>
       /\ AssignRelationship(FocusRef, objs[1], row)
       /\ objs' = IF catLast'[5] = "ok"
                  THEN <<Synchronize(CodedReference[FocusRef].join, objs[1], row)>>
                  ELSE objs
       /\ UNCHANGED <<importVars, compatVars, ent, focus, last, dbVars>>
  \/ \E root \in DeleteRoots[FocusRef] :
       /\ objs # <<>>
       /\ DeleteEntity(FocusRef, objs[1], root)
       /\ objs' = <<>>
       /\ UNCHANGED <<importVars, compatVars, ent, focus, last, dbVars>>

SpecCodedWrite == SpecCodedWriteInit /\ [][SpecCodedWriteNext]_vars

\* Stored and computed descriptions of one Treatment: reads of the computed
\* description, writes of the stored description column, and changes of
\* Code.description
SpecStoredInit ==
  /\ SpecCodedWriteInit
  /\ ent[2] = "Treatment"

SpecStoredNext ==
  \/ ReadProxy(FocusRef, FocusProxy, objs[1])
       /\ UNCHANGED <<importVars, compatVars, aliasVars, dbVars>>
  \/ \E v \in Descriptions :
       /\ SetProxy(FocusRef, FocusProxy, objs[1], v)
       /\ UNCHANGED <<importVars, compatVars, aliasVars, dbVars>>
  \/ \E v \in Descriptions :
       /\ WriteColumn(EntClass, objs[1], StoredDescription[focus[1]], v)
       /\ UNCHANGED <<importVars, compatVars, ent, focus, last, dbVars>>

SpecStored == SpecStoredInit /\ [][SpecStoredNext]_vars

C9_Relationships ==
  {<<"Facility", "code_info">>, <<"PVData", "rrtstatus_info">>, <<"PVData", "tpstatus_info">>,
   <<"Treatment", "admit_reason_code_item">>, <<"Treatment", "discharge_reason_code_item">>}

\* C9: coded-reference resolution yields at most one Code row: the coded
\* references are Facility.code_info, PVData.rrtstatus_info, PVData.tpstatus_info,
\* Treatment.admit_reason_code_item and Treatment.discharge_reason_code_item; in
\* every catalog state and for every referring instance the join of each of them
\* selects zero or one Code row, and a load returns a scalar: nothing or the one
\* row selected, never a collection of two or more.
C9_AtMostOneCode ==
  /\ {CodedReference[ref].name : ref \in CodedReferences} = C9_Relationships
  /\ \A ref \in CodedReferences :
       /\ ~CodedReference[ref].uselist
       /\ \A obj \in CodedReference[ref].referrers :
            Cardinality(JoinRows(CodedReference[ref].join, obj, catalog)) <= 1
  /\ (catLast # <<>> /\ catLast[1] = "load") =>
       /\ Cardinality(catLast[4]) <= 1
       /\ catLast[5] = catLast[4]

\* Facility.code_info has been loaded from a catalog that holds the facility's
\* code under two coding standards, and produced the one RR1+ row
C9_Witness ==
  /\ catLast # <<>>
  /\ catLast[1] = "load" /\ catLast[2] = <<"Facility", "code_info">>
  /\ Cardinality({r \in catalog : r["code"] = catLast[3]["code"]}) = 2
  /\ Cardinality(catLast[5]) = 1
  /\ \A r \in catLast[5] : r["coding_standard"] = "RR1+"

\* C10: catalog key uniqueness: after any sequence of Code inserts no two rows
\* of the catalog share the same (coding_standard, code) pair; an insert of a
\* row whose pair is already in the catalog fails and leaves the catalog
\* unchanged.
C10_CatalogKeyUnique ==
  [][/\ \A a, b \in catalog' :
          (a["coding_standard"] = b["coding_standard"] /\ a["code"] = b["code"]) => a = b
     /\ (catLast' # catLast /\ catLast'[1] = "insert"
           /\ \E r \in catalog : /\ r["coding_standard"] = catLast'[2]["coding_standard"]
                                 /\ r["code"] = catLast'[2]["code"])
          => (catLast'[3] = "IntegrityError" /\ catalog' = catalog)
     /\ (catLast' # catLast /\ catLast'[1] = "insert" /\ catLast'[3] = "IntegrityError")
          => catalog' = catalog]_vars

\* an insert of an existing key with another description has just been refused
C10_Witness ==
  /\ catLast # <<>>
  /\ catLast[1] = "insert" /\ catLast[3] = "IntegrityError"
  /\ catLast[2] \notin catalog
  /\ \E r \in catalog : /\ r["coding_standard"] = catLast[2]["coding_standard"]
                        /\ r["code"] = catLast[2]["code"]

\* the derived descriptions with a fixed coding standard:
\* <<class, proxy, coding standard, code column>>
C11_Fixed ==
  {<<"Facility", "description", "RR1+", "code">>,
   <<"PVData", "rrtstatus_desc", "PV_RRTSTATUS", "rrtstatus">>,
   <<"PVData", "tpstatus_desc", "PV_TPSTATUS", "tpstatus">>}

\* C11: fixed-standard resolution: a read of Facility.description returns the
\* description of the Code row whose coding_standard is exactly 'RR1+' and
\* whose code is the facility's code (PVData.rrtstatus_desc and tpstatus_desc
\* likewise with 'PV_RRTSTATUS' and 'PV_TPSTATUS'), and nothing when the catalog
\* has no such row: a row with the same code under another coding standard is
\* never returned.
C11_FixedStandardResolution ==
  /\ \A f \in C11_Fixed :
       \E ref \in CodedReferences :
         CodedReference[ref].name[1] = f[1] /\ \E p \in CodedProxy[ref] : p[1] = f[2]
  /\ (catLast # <<>> /\ catLast[1] = "get") =>
       \A f \in C11_Fixed :
         catLast[2] = <<f[1], f[2]>> =>
           LET match == {r \in catalog :
                           r["coding_standard"] = f[3] /\ r["code"] = catLast[3][f[4]]}
           IN IF match = {} THEN catLast[5] = None
              ELSE \A r \in match : catLast[5] = r["description"]

\* the catalog maps ('RR1+', 'HOSP01') to 'Example Hospital' and holds HOSP01
\* under another standard too; the description of a Facility with code HOSP01
\* has been read and is 'Example Hospital'
C11_Witness ==
  /\ catLast # <<>>
  /\ catLast[1] = "get" /\ catLast[2] = <<"Facility", "description">>
  /\ catLast[3]["code"] = "HOSP01"
  /\ [coding_standard |-> "RR1+", code |-> "HOSP01", description |-> "Example Hospital"]
       \in catalog
  /\ \E r \in catalog : r["code"] = "HOSP01" /\ r["coding_standard"] # "RR1+"
                          /\ r["description"] # "Example Hospital"
  /\ catLast[5] = "Example Hospital"

\* the derived descriptions: <<class, proxy, "literal" and the coding standard
\* or "column" and the column that holds it, code column>>
C12_Derived ==
  {<<"Facility", "description", "literal", "RR1+", "code">>,
   <<"PVData", "rrtstatus_desc", "literal", "PV_RRTSTATUS", "rrtstatus">>,
   <<"PVData", "tpstatus_desc", "literal", "PV_TPSTATUS", "tpstatus">>,
   <<"Treatment", "admit_reason_desc", "column", "admitreasoncodestd", "admitreasoncode">>,
   <<"Treatment", "discharge_reason_desc", "column", "dischargereasoncodestd",
     "dischargereasoncode">>}

\* C12: an unresolved coded reference is not an error: when the entity's code
\* is null, or the catalog has no Code row for the entity's (coding standard,
\* code) pair, a read of the derived description (Facility.description,
\* PVData.rrtstatus_desc / tpstatus_desc, Treatment.admit_reason_desc /
\* discharge_reason_desc) returns None; a read never raises: it returns None or
\* a description.
C12_UnresolvedIsNotAnError ==
  (catLast # <<>> /\ catLast[1] = "get") =>
    /\ catLast[5] \in Descriptions \cup {None}
    /\ \E d \in C12_Derived : catLast[2] = <<d[1], d[2]>>
    /\ \A d \in C12_Derived :
         catLast[2] = <<d[1], d[2]>> =>
           LET obj == catLast[3]
               code == IF d[5] \in DOMAIN obj THEN obj[d[5]] ELSE None
               std == IF d[3] = "literal" THEN d[4]
                      ELSE IF d[4] \in DOMAIN obj THEN obj[d[4]] ELSE None
           IN (\/ code = None
               \/ ~\E r \in catalog : r["coding_standard"] = std /\ r["code"] = code)
                => catLast[5] = None

\* Treatment.admit_reason_desc has been read on a treatment whose admit reason
\* code is null while the catalog holds a code of its coding standard, and on
\* that read nothing was returned
C12_Witness ==
  /\ catLast # <<>>
  /\ catLast[1] = "get" /\ catLast[2] = <<"Treatment", "admit_reason_desc">>
  /\ catLast[3]["admitreasoncode"] = None
  /\ \E r \in catalog : r["coding_standard"] = catLast[3]["admitreasoncodestd"]
  /\ catLast[5] = None

\* C13: the coded-reference resolver is read-only: no operation through a
\* coded-reference relationship or its derived description (a load, a read of
\* the description, an assignment to the description or to the relationship)
\* creates, updates or deletes a row of the Code catalog.
C13_ResolverIsReadOnly ==
  [][(catLast' # catLast /\ catLast'[1] \in {"load", "get", "set", "assign"})
       => catalog' = catalog]_vars

\* C14: reference data is never cascade-deleted: a delete of a clinical entity
\* (a Facility, a PVData or a Treatment, directly or through the delete of its
\* PatientRecord) leaves every row of the Code catalog in place, the row the
\* entity resolved to included; no relationship of any class cascades a delete
\* to Code, CodeMap or CodeExclusion, and none of the three tables hangs on the
\* PatientRecord aggregate by a foreign key.
C14_ReferenceDataNotCascadeDeleted ==
  [][(catLast' # catLast /\ catLast'[1] = "delete") =>
     LET C14_ReferenceClasses == {"Code", "CodeMap", "CodeExclusion"} IN
       /\ catalog' = catalog
       /\ catLast'[4] \subseteq catalog'
       /\ \A i \in DOMAIN ukrdc_classes :
            /\ \A j \in DOMAIN ukrdc_classes[i].relationships :
                 ukrdc_classes[i].relationships[j].argument \in C14_ReferenceClasses
                   => ~HasDeleteCascade(ukrdc_classes[i].relationships[j])
            /\ ukrdc_classes[i].name \in C14_ReferenceClasses
                 => ukrdc_classes[i].tablename \notin RegistryTables]_vars

\* a Treatment whose admit reason resolved to a Code row has been deleted
\* through its PatientRecord, and the row is still in the catalog
C14_Witness ==
  /\ catLast # <<>>
  /\ catLast[1] = "delete" /\ catLast[2] = <<"Treatment", "patientrecord">>
  /\ catLast[4] # {} /\ catLast[4] \subseteq catalog
  /\ objs = <<>>

\* C15: ResultItem.pid is derived, never stored: the class has no pid column,
\* pid is an association proxy, and in every state, so also after the lab
\* order's pid was changed or the result item was moved to another lab order,
\* the pid read from a result item attached to a lab order is that lab
\* order's pid.
C15_ResultItemPidDerived ==
  /\ "pid" \notin DOMAIN Registry["resultitem"].values
  /\ \E p \in Registry["resultitem"].proxies : p[1] = "pid"
  /\ \A r \in db : \A o \in db :
       (r.t = "resultitem" /\ o.t = "laborder" /\ r.cols["order_id"] = o.cols["id"])
         => Attribute(db, r, "pid") = o.cols["pid"]

\* the pid of a lab order has just been changed, or a result item has just
\* been moved to another lab order, and the result item reads a pid
C15_Witness ==
  /\ dbLast # <<>>
  /\ dbLast[1] = "update" /\ dbLast[3] = "ok"
  /\ \/ /\ dbLast[2][1] = "laborder" /\ dbLast[4] = {"pid"}
        /\ \E r \in db : r.t = "resultitem" /\ r.cols["order_id"] = dbLast[2][2]["id"]
                           /\ Attribute(db, r, "pid") # NULL
     \/ /\ dbLast[2][1] = "resultitem" /\ dbLast[4] = {"order_id"}
        /\ \E r \in db : RowId(r) = dbLast[2] /\ Attribute(db, r, "pid") # NULL

\* C16: ResultItem.pid is read-only: no write through it changes a stored
\* value; in particular it never changes the pid of the owning lab order and
\* never creates a lab order.
C16_ResultItemPidReadOnly ==
  [][(dbLast' # dbLast /\ dbLast'[1] = "set" /\ dbLast'[2][1] = "resultitem") =>
       /\ db' = db
       /\ \A o \in db : o.t = "laborder" =>
            \E n \in db' : RowId(n) = RowId(o) /\ n.cols["pid"] = o.cols["pid"]
       /\ \A n \in db' : n.t = "laborder" => \E o \in db : RowId(o) = RowId(n)]_vars

\* the PatientRecord rows a row hangs on, following every foreign key upwards
RECURSIVE Owners(_, _)
Owners(rows_, r) ==
  IF r.t = "patientrecord" THEN {r}
  ELSE UNION {UNION {Owners(rows_, p) : p \in Referenced(rows_, fk, r.cols[fk[1]])} :
                fk \in {x \in Registry[r.t].foreign_keys : r.cols[x[1]] # NULL}}

\* C17: exclusive ownership: in every state each child row (keyed by pid to
\* patientrecord or patient, a result item through its lab order, a question,
\* score or level through its survey) belongs to at most one PatientRecord.
C17_ExclusiveOwnership ==
  \A r \in db : r.t # "patientrecord" => Cardinality(Owners(db, r)) <= 1

\* two PatientRecords exist, and a row two levels below the root (a result
\* item, a question, a name, ...) belongs to one of them
C17_Witness ==
  /\ Cardinality({r \in db : r.t = "patientrecord"}) = 2
  /\ \E r \in db : Len(Registry[r.t].chain) = 3 /\ Cardinality(Owners(db, r)) = 1

\* C18: every PatientRecord owns exactly one Patient: in every state a
\* PatientRecord has neither zero nor more than one Patient row with its pid.
C18_ExactlyOnePatient ==
  \A r \in db : r.t = "patientrecord" =>
    Cardinality({p \in db : p.t = "patient" /\ p.cols["pid"] = r.cols["pid"]}) = 1

\* C19: legacy and current attribute names stay on the same storage: for the
\* entity of COMP and the legacy attribute the compatibility test is looking
\* at, when the legacy attribute is a column, the current attribute of the
\* same name resolves (directly or through its synonym) to a column of the
\* same name as the legacy column.
C19_SameColumnName ==
  (cpc = "loop" /\ HasClass(v2, COMP[ci][1])) =>
    LET v1_cls == COMP[ci][2]
        v2_cls == ClassNamed(v2, COMP[ci][1])
        keys == KeySeq(v1_cls)
        k == keys[((rot + kj) % Len(keys)) + 1]
    IN k \in ColumnKeys(v1_cls) => ColumnName(v2_cls, k) = ColumnName(v1_cls, k)

\* C20: the compatibility test does not short-circuit: a run ends only after
\* the last attribute of the last entity of COMP has been examined, and what
\* it reports is the complete set of gaps (every legacy attribute of every
\* entity that the current class lacks or exposes as something invalid).
C20_NoShortCircuit ==
  cpc \in {"AssertionError", "AttributeError", "passed"} =>
    LET Expected(k) == IF k = "feild_name" THEN "field_name" ELSE k
        Gaps == UNION {{<<COMP[i][1], Expected(k)>> :
                          k \in {x \in field_keys(COMP[i][2]) :
                                   \/ ~HasClass(v2, COMP[i][1])
                                   \/ ~hasattr(ClassNamed(v2, COMP[i][1]), Expected(x))
                                   \/ /\ x # "feild_name"
                                      /\ ~IsValidAttribute(ClassNamed(v2, COMP[i][1]), x)}} :
                        i \in DOMAIN COMP}
    IN /\ ci = Len(COMP)
       /\ kj = Len(KeySeq(COMP[ci][2])) - 1
       /\ (IF failure = <<>> THEN {} ELSE {<<failure[1], failure[2]>>}) = Gaps

\* C21: compatibility completeness for renames: against a current
\* RRDataDefinition exposing field_name plus the alias feild_name -> field_name
\* the run ends with zero gaps; with that alias removed it ends reporting
\* exactly one gap, the legacy name feild_name of RRDataDefinition.
C21_RenameCompleteness ==
  (cpc # "loop" /\ focus # <<>>) =>
    /\ focus[3] = "alias" => (cpc = "passed" /\ failure = <<>>)
    /\ focus[3] = "removed" =>
         /\ cpc = "AssertionError"
         /\ failure[1] = "RRDataDefinition"
         /\ failure[2] \in {"feild_name", "field_name"}

\* C26: the four attribute representations are treated uniformly for every
\* legacy name, one resolved through the rename table included: when the test
\* moves past a legacy attribute without a failure, the current attribute it
\* resolved to is a mapped attribute, an alias, an association proxy or a
\* computed property.
C26_UniformRepresentations ==
  [][(cpc = "loop" /\ cpc' \in {"loop", "passed"} /\ HasClass(v2, COMP[ci][1])) =>
       LET keys == KeySeq(COMP[ci][2])
           k == keys[((rot + kj) % Len(keys)) + 1]
       IN IsValidAttribute(ClassNamed(v2, COMP[ci][1]),
                           IF k = "feild_name" THEN "field_name" ELSE k)]_vars

\* C22: coded-reference determinism: two resolutions of the same coded
\* reference of the same instance (two loads of the relationship, or two reads
\* of its derived description) with no change of the catalog between them
\* return equal results, for every coded reference and every catalog.
C22_ResolutionDeterministic ==
  [][(/\ catLast # <<>> /\ catLast[1] \in {"load", "get"}
      /\ catLast'[1] = catLast[1] /\ catLast'[2] = catLast[2] /\ catLast'[3] = catLast[3]
      /\ catalog' = catalog)
     => catLast'[5] = catLast[5]]_vars

\* the discharge reason of a treatment has been resolved to a description in a
\* catalog that holds the same code under two coding standards
C22_Witness ==
  /\ catLast # <<>>
  /\ catLast[1] = "get" /\ catLast[2] = <<"Treatment", "discharge_reason_desc">>
  /\ catLast[5] \in Descriptions
  /\ \E r, q \in catalog :
       /\ r["code"] = catLast[3]["dischargereasoncode"] /\ q["code"] = r["code"]
       /\ r["coding_standard"] # q["coding_standard"]
       /\ r["description"] # q["description"]

\* C24: two-sided dynamic resolution: Treatment.admit_reason_desc (and
\* discharge_reason_desc) is the description of the Code row whose
\* coding_standard is the treatment's current reason code standard and whose
\* code is its current reason code, whether the two are read through the
\* aliases or the canonical columns; None when there is no such row, so a row
\* matching one side only never resolves.
C24_TwoSidedResolution ==
  (catLast # <<>> /\ catLast[1] = "get" /\ catLast[2][1] = "Treatment") =>
    \A f \in {<<"admit_reason_desc", "admit_reason_code_std", "admit_reason_code",
                "admitreasoncodestd", "admitreasoncode">>,
              <<"discharge_reason_desc", "discharge_reason_code_std", "discharge_reason_code",
                "dischargereasoncodestd", "dischargereasoncode">>} :
      catLast[2][2] = f[1] =>
        LET match == {r \in catalog :
                        /\ r["coding_standard"] = getattr(ukrdc_Treatment, catLast[3], f[2])
                        /\ r["code"] = getattr(ukrdc_Treatment, catLast[3], f[3])}
        IN /\ getattr(ukrdc_Treatment, catLast[3], f[2]) = getattr(ukrdc_Treatment, catLast[3], f[4])
           /\ getattr(ukrdc_Treatment, catLast[3], f[3]) = getattr(ukrdc_Treatment, catLast[3], f[5])
           /\ IF match = {} THEN catLast[5] = None
              ELSE \A r \in match : catLast[5] = r["description"]

\* admit_reason_desc has been read on a treatment whose standard and code both
\* match one Code row, while another row has the same code under a different
\* standard; the description returned is that of the row matching both
C24_Witness ==
  /\ catLast # <<>>
  /\ catLast[1] = "get" /\ catLast[2] = <<"Treatment", "admit_reason_desc">>
  /\ \E r, q \in catalog :
       /\ r["coding_standard"] = catLast[3]["admitreasoncodestd"]
       /\ r["code"] = catLast[3]["admitreasoncode"]
       /\ q["code"] = r["code"] /\ q["coding_standard"] # r["coding_standard"]
       /\ q["description"] # r["description"]
       /\ catLast[5] = r["description"]

\* ----------------------------------------------------------------------
\* utils/extras.py: column_name and column_names.  A column attribute is a
\* pair <<attribute key, column name>> of a mapped class; an argument of
\* column_names is <<"column", c>> or <<"iterable", <<c, ...>>>>.
\* ----------------------------------------------------------------------
MaxItems == 2

\* the column attributes the calls are made with: ResultItem.id and
\* ResultItem.order_id (column orderid)
ExtrasColumns == {ukrdc_ResultItem.columns[i] : i \in 1..2}

RECURSIVE SeqsUpTo(_, _)
SeqsUpTo(S, n) ==
  IF n = 0 THEN {<<>>}
  ELSE SeqsUpTo(S, n - 1) \cup {Append(s, x) : s \in {t \in SeqsUpTo(S, n - 1) : Len(t) = n - 1}, x \in S}

ExtrasItems ==
  {<<"column", c>> : c \in ExtrasColumns}
    \cup {<<"iterable", s>> : s \in SeqsUpTo(ExtrasColumns, MaxItems)}

\* col.name
column_name(col) == col[2]

\* a faulty column_names: an iterable argument contributes the name of its
\* first column only
RECURSIVE column_names_first(_)
column_names_first(items) ==
  IF items = <<>> THEN <<>>
  ELSE (IF Head(items)[1] = "iterable"
        THEN (IF Head(items)[2] = <<>> THEN <<>> ELSE <<Head(items)[2][1][2]>>)
        ELSE <<Head(items)[2][2]>>)
       \o column_names_first(Tail(items))

\* column_names(*items): names.append(x.name) for every x of an iterable item,
\* names.append(item.name) for any other item, in argument order
RECURSIVE column_names(_)
column_names(items) ==
  IF items = <<>> THEN <<>>
  ELSE (IF Head(items)[1] = "iterable"
        THEN [i \in 1..Len(Head(items)[2]) |-> Head(items)[2][i][2]]
        ELSE <<Head(items)[2][2]>>)
       \o column_names(Tail(items))

\* a call column_names(*objs); last holds the list returned
ExtrasInit ==
  /\ objs \in SeqsUpTo(ExtrasItems, MaxItems)
  /\ last = <<>>
  /\ ent = <<>> /\ focus = <<>>

CallColumnNames ==
  /\ last = <<>>
  /\ last' = <<"column_names", column_names(objs)>>
  /\ UNCHANGED <<ent, focus, objs>>

SpecExtrasInit ==
  /\ ExtrasInit
  /\ mapped = [m \in ModuleNames |-> Len(Modules[m])]
  /\ cpc = "idle" /\ ci = 0 /\ rot = 0 /\ kj = 0 /\ failure = <<>>
  /\ scope = <<>> /\ db = {} /\ dbLast = <<>>
  /\ catalog = {} /\ catLast = <<>>

SpecExtrasNext ==
  CallColumnNames /\ UNCHANGED <<importVars, compatVars, dbVars, catVars>>

SpecExtras == SpecExtrasInit /\ [][SpecExtrasNext]_vars

\* C23: column_names returns one name per column in argument order,
\* flattening one level of iterable arguments: column_names(a) is
\* [column_name(a)], column_names(a, b) is [name(a), name(b)],
\* column_names([a, b]) is column_names(a, b), and the length of the result
\* is the total number of columns passed.
C23_ColumnNames ==
  last # <<>> =>
    LET result == last[2]
        Count(item) == IF item[1] = "iterable" THEN Len(item[2]) ELSE 1
        Total == LET RECURSIVE Sum(_)
                     Sum(i) == IF i = 0 THEN 0 ELSE Sum(i - 1) + Count(objs[i])
                 IN Sum(Len(objs))
    IN /\ Len(result) = Total
       /\ (\A i \in DOMAIN objs : objs[i][1] = "column") =>
            result = [i \in DOMAIN objs |-> column_name(objs[i][2])]
       /\ (Len(objs) = 1 /\ objs[1][1] = "iterable") =>
            result = column_names([i \in DOMAIN objs[1][2] |-> <<"column", objs[1][2][i]>>])
       /\ \A i \in DOMAIN objs :
            LET RECURSIVE Offset(_)
                Offset(j) == IF j = 0 THEN 0 ELSE Offset(j - 1) + Count(objs[j])
            IN IF objs[i][1] = "column"
               THEN result[Offset(i - 1) + 1] = column_name(objs[i][2])
               ELSE \A k \in DOMAIN objs[i][2] :
                      result[Offset(i - 1) + k] = column_name(objs[i][2][k])

\* column_names(ResultItem.order_id, [ResultItem.id, ResultItem.order_id]) has
\* returned ["orderid", "id", "orderid"]
C23_Witness ==
  /\ last = <<"column_names", <<"orderid", "id", "orderid">>>>
  /\ Len(objs) = 2 /\ objs[1][1] = "column" /\ objs[2][1] = "iterable"

\* C25: the stored description text of a Treatment is independent of the
\* catalog: a write of admitreasondesc / dischargereasondesc changes neither
\* the Code row the reason resolves to (so not the computed admit_reason_desc /
\* discharge_reason_desc) nor any row of the catalog, and a step that changes
\* the catalog (a Code.description among it) leaves the stored column as it was.
C25_StoredDescriptionIndependent ==
  [][(ent # <<>> /\ ent[2] = "Treatment" /\ objs # <<>> /\ objs' # <<>>) =>
       /\ (catLast' # catLast /\ catLast'[1] = "write") =>
            /\ catalog' = catalog
            /\ LoadedValues(FocusRef, objs'[1], catalog') = LoadedValues(FocusRef, objs[1], catalog)
       /\ catalog' # catalog =>
            \A k \in {"admitreasondesc", "dischargereasondesc"} :
              getattr(EntClass, objs'[1], k) = getattr(EntClass, objs[1], k)]_vars

\* the stored admit reason description has just been written and disagrees
\* with the description the admit reason resolves to
C25_Witness ==
  /\ catLast # <<>> /\ catLast[1] = "write"
  /\ catLast[2] = <<"Treatment", "admitreasondesc">>
  /\ objs # <<>>
  /\ getattr(EntClass, objs[1], "admitreasondesc") = "Unknown"
  /\ LoadedValues(FocusRef, objs[1], catalog) # {{}}
  /\ \A value \in LoadedValues(FocusRef, objs[1], catalog) :
       \A r \in value : r["description"] = "Example Hospital"

\* ----------------------------------------------------------------------
\* Patient.name, Patient.first_ni_number, Patient.first_hospital_number:
\* the properties walk Patient.names / Patient.numbers in the order the
\* collection yields its rows and return at the first match.  An Optional
\* result is <<>> for None and <<x>> for x.
\* ----------------------------------------------------------------------
MaxLen == 2

NameRows == [id : {1, 2}, nameuse : {"L", "B", None}]
NumberRows ==
  [patientid : {"N1", "N2"}, numbertype : {"NI", "MRN"},
   organization : {"NHS", "CHI", "HSC", "LOCALHOSP", "OTHER"}]

\* a faulty name: the last legal name instead of the first
RECURSIVE Patient_name_last(_)
Patient_name_last(names) ==
  IF names = <<>> THEN <<>>
  ELSE IF names[Len(names)].nameuse = "L" THEN <<names[Len(names)]>>
  ELSE Patient_name_last(SubSeq(names, 1, Len(names) - 1))

\* Patient.name
RECURSIVE Patient_name(_)
Patient_name(names) ==
  IF names = <<>> THEN <<>>
  ELSE IF Head(names).nameuse = "L" THEN <<Head(names)>>
  ELSE Patient_name(Tail(names))

\* a faulty first_ni_number: the organization is not looked at
RECURSIVE Patient_first_ni_number_anyorg(_)
Patient_first_ni_number_anyorg(numbers) ==
  IF numbers = <<>> THEN <<>>
  ELSE IF Head(numbers).numbertype = "NI" THEN <<Head(numbers).patientid>>
  ELSE Patient_first_ni_number_anyorg(Tail(numbers))

\* Patient.first_ni_number
RECURSIVE Patient_first_ni_number(_)
Patient_first_ni_number(numbers) ==
  IF numbers = <<>> THEN <<>>
  ELSE IF /\ Head(numbers).numbertype = "NI"
          /\ Head(numbers).organization \in {"NHS", "CHI", "HSC"}
       THEN <<Head(numbers).patientid>>
  ELSE Patient_first_ni_number(Tail(numbers))

\* Patient.first_hospital_number
RECURSIVE Patient_first_hospital_number(_)
Patient_first_hospital_number(numbers) ==
  IF numbers = <<>> THEN <<>>
  ELSE IF /\ Head(numbers).numbertype = "MRN"
          /\ Head(numbers).organization = "LOCALHOSP"
       THEN <<Head(numbers).patientid>>
  ELSE Patient_first_hospital_number(Tail(numbers))

\* a Patient with its names and numbers in the order the collections yield
\* them; names are distinct rows
PatientInit ==
  /\ ent = <<"ukrdc", "Patient">>
  /\ focus = <<>>
  /\ objs \in [names : {s \in SeqsUpTo(NameRows, MaxLen) :
                          \A i, j \in DOMAIN s : s[i].id = s[j].id => i = j},
               numbers : SeqsUpTo(NumberRows, MaxLen)]
  /\ last = <<>>

\* a read of the property prop of the patient
ReadProperty(prop) ==
  /\ last' = <<prop,
               CASE prop = "name" -> Patient_name(objs.names)
                 [] prop = "first_ni_number" -> Patient_first_ni_number(objs.numbers)
                 [] prop = "first_hospital_number" -> Patient_first_hospital_number(objs.numbers)>>
  /\ UNCHANGED <<ent, focus, objs>>

SpecPatientInit ==
  /\ PatientInit
  /\ mapped = [m \in ModuleNames |-> Len(Modules[m])]
  /\ cpc = "idle" /\ ci = 0 /\ rot = 0 /\ kj = 0 /\ failure = <<>>
  /\ scope = <<>> /\ db = {} /\ dbLast = <<>>
  /\ catalog = {} /\ catLast = <<>>

SpecPatientNext ==
  \E prop \in {"name", "first_ni_number", "first_hospital_number"} :
    ReadProperty(prop) /\ UNCHANGED <<importVars, compatVars, dbVars, catVars>>

SpecPatient == SpecPatientInit /\ [][SpecPatientNext]_vars

\* C27: Patient.name returns the first Name, in the iteration order of
\* Patient.names, whose nameuse is 'L'; None when no name has nameuse 'L' or
\* there is no name at all; the read raises nothing and changes no row.
C27_PatientName ==
  [][(last' # last /\ last'[1] = "name") =>
       LET legal == {i \in DOMAIN objs.names : objs.names[i].nameuse = "L"}
       IN /\ objs' = objs
          /\ IF legal = {} THEN last'[2] = <<>>
             ELSE /\ last'[2] = <<objs.names[CHOOSE i \in legal : \A j \in legal : i <= j]>>
                  /\ \A j \in legal : last'[2][1] = objs.names[j] => \A i \in legal : j <= i]_vars

\* name has been read on a patient with two legal names, and the first is
\* the one returned
C27_Witness ==
  /\ last # <<>> /\ last[1] = "name"
  /\ Len(objs.names) = 2
  /\ objs.names[1].nameuse = "L" /\ objs.names[2].nameuse = "L"
  /\ last[2] = <<objs.names[1]>>

\* C28: the first-number lookups are first-match over Patient.numbers in
\* iteration order: first_ni_number returns the patientid of the first number
\* with numbertype 'NI' and organization NHS, CHI or HSC, first_hospital_number
\* that of the first number with numbertype 'MRN' and organization LOCALHOSP;
\* None when no number matches; a number matching one condition only is never
\* returned.
C28_FirstNumbers ==
  (last # <<>> /\ last[1] \in {"first_ni_number", "first_hospital_number"}) =>
    LET Matches(n) == IF last[1] = "first_ni_number"
                      THEN n.numbertype = "NI" /\ n.organization \in {"NHS", "CHI", "HSC"}
                      ELSE n.numbertype = "MRN" /\ n.organization = "LOCALHOSP"
        hits == {i \in DOMAIN objs.numbers : Matches(objs.numbers[i])}
    IN IF hits = {} THEN last[2] = <<>>
       ELSE last[2] = <<objs.numbers[CHOOSE i \in hits : \A j \in hits : i <= j].patientid>>

\* first_ni_number has been read on a patient whose first number has type NI
\* but another organization and whose second number is an NHS number: the
\* second one is returned
C28_Witness ==
  /\ last # <<>> /\ last[1] = "first_ni_number"
  /\ Len(objs.numbers) = 2
  /\ objs.numbers[1].numbertype = "NI" /\ objs.numbers[1].organization = "LOCALHOSP"
  /\ objs.numbers[2].numbertype = "NI" /\ objs.numbers[2].organization = "NHS"
  /\ objs.numbers[1].patientid # objs.numbers[2].patientid
  /\ last[2] = <<objs.numbers[2].patientid>>

\* ----------------------------------------------------------------------
\* Identity graph (classes of empi.py): Person, MasterRecord, LinkRecord,
\* WorkItem, PidXRef and Audit rows, the foreign keys between them and the
\* delete cascade the relationship() declarations configure.  A row is
\* [t |-> table name, cols |-> key columns].
\* ----------------------------------------------------------------------
\* the attributes of cls that identify or refer to a graph row: its primary
\* key, its foreign keys, the columns a foreign key of another class names,
\* and the personid / masterid columns a class keeps without a foreign key
GraphColumns(classes, cls) ==
  cls.primary_key \cup FkKeys(cls)
    \cup {ColKeyOf(cls, fk[3]) :
            fk \in {x \in UNION {classes[i].foreign_keys : i \in DOMAIN classes} :
                      x[2] = cls.tablename}}
    \cup ({cls.columns[i][1] : i \in DOMAIN cls.columns} \cap {"personid", "masterid"})

\* what the mapper configures for each table of the module: the key columns,
\* those that admit NULL, the columns that are unique (the primary key and
\* every column a foreign key names), the foreign keys as <<attribute,
\* referenced table, referenced attribute>>, the relationships that cascade a
\* delete (cascades) and those that blank the child's foreign key instead
IdentityMapper(classes) ==
  [t \in {classes[i].tablename : i \in DOMAIN classes} |->
     [primary_key |-> TableClass(classes, t).primary_key,
      columns |-> GraphColumns(classes, TableClass(classes, t)),
      nullable |-> {k \in GraphColumns(classes, TableClass(classes, t)) :
                      Nullable(TableClass(classes, t), k)},
      unique |-> GraphColumns(classes, TableClass(classes, t))
                   \ (FkKeys(TableClass(classes, t)) \cup {"personid", "masterid"}),
      foreign_keys |-> {<<fk[1], fk[2], ColKeyOf(TableClass(classes, fk[2]), fk[3])>> :
                          fk \in TableClass(classes, t).foreign_keys},
      cascades |-> Links(classes, TableClass(classes, t),
                         {j \in DOMAIN TableClass(classes, t).relationships :
                            HasDeleteCascade(TableClass(classes, t).relationships[j])}),
      blanks |-> Links(classes, TableClass(classes, t),
                       {j \in DOMAIN TableClass(classes, t).relationships :
                          /\ ~HasDeleteCascade(TableClass(classes, t).relationships[j])
                          /\ ~TableClass(classes, t).relationships[j].viewonly})]]

\* a faulty mapping: Person.link_records without a delete cascade
IdentityGraph_nocascade ==
  [IdentityMapper(empi_classes) EXCEPT
     !["person"].cascades = {l \in @ : l[2] # "linkrecord"},
     !["person"].blanks = @ \cup {l \in IdentityMapper(empi_classes)["person"].cascades :
                                    l[2] = "linkrecord"}]

\* a faulty mapping: Audit reached from Person by a cascading relationship
IdentityGraph_auditcascade ==
  [IdentityMapper(empi_classes) EXCEPT
     !["person"].cascades = @ \cup {<<<<"person", "personid", "id">>, "audit">>}]

IdentityGraph == IdentityMapper(empi_classes)

GraphTables == {"person", "masterrecord", "linkrecord", "workitem"}

\* the values of an id, personid, masterid, localid or pid column, and the
\* number of rows outside person and masterrecord
EmpiIds == {1, 2}
MaxLinks == 2

\* every foreign key of every row is NULL or names an existing row
EmpiFkIntegrity(rows_) ==
  \A r \in rows_ :
    \A fk \in IdentityGraph[r.t].foreign_keys :
      r.cols[fk[1]] # NULL => Referenced(rows_, fk, r.cols[fk[1]]) # {}

\* the objects session.delete(row) marks deleted: the row and, through every
\* relationship that cascades delete, the related rows, transitively
RECURSIVE EmpiCascadeDelete(_, _)
EmpiCascadeDelete(rows_, row) ==
  {row} \cup
  UNION {UNION {EmpiCascadeDelete(rows_, ch) : ch \in Related(rows_, row, link)} :
           link \in IdentityGraph[row.t].cascades}

\* the database after session.delete(row) and a flush: the cascaded rows are
\* deleted and the foreign key of a row related through a relationship that
\* does not cascade is set to NULL; <<"error", rows_>> when the flush fails
\* and the transaction is rolled back
EmpiFlushDelete(rows_, row) ==
  LET deleted == EmpiCascadeDelete(rows_, row)
      Blanked(r) ==
        {link[1][2] :
           link \in UNION {{x \in IdentityGraph[d.t].blanks : r \in Related(rows_, d, x)} :
                             d \in deleted}}
      after == {BlankKeys(r, Blanked(r)) : r \in rows_ \ deleted}
  IN IF \/ \E r \in after : \E k \in DOMAIN r.cols :
              r.cols[k] = NULL /\ k \notin IdentityGraph[r.t].nullable
        \/ ~EmpiFkIntegrity(after)
     THEN <<"error", rows_>>
     ELSE <<"ok", after>>

EmpiRowId(r) == <<r.t, r.cols.id>>

EmpiInit ==
  /\ scope = <<>>
  /\ db = {}
  /\ dbLast = <<>>

\* session.add(cls(**cols)) and a flush for the class of table t: the row is
\* stored when its unique columns are new and its foreign keys name existing
\* rows
EmpiInsert(t, cols) ==
  LET row == [t |-> t, cols |-> cols]
  IN /\ t \notin {"person", "masterrecord"} =>
          Cardinality({r \in db : r.t \notin {"person", "masterrecord"}}) < MaxLinks
     /\ \A r \in db : r.t = t => \A k \in IdentityGraph[t].unique : r.cols[k] # cols[k]
     /\ EmpiFkIntegrity(db \cup {row})
     /\ db' = db \cup {row}
     /\ dbLast' = <<"insert", EmpiRowId(row), "ok", {}>>
     /\ UNCHANGED scope

\* session.delete(row) and a flush
EmpiDelete(row) ==
  LET res == EmpiFlushDelete(db, row)
  IN /\ db' = res[2]
     /\ dbLast' = <<"delete", EmpiRowId(row), res[1], {EmpiRowId(r) : r \in db \ res[2]}>>
     /\ UNCHANGED scope

\* row.k = v and a flush: the UPDATE is applied when the unique columns stay
\* unique and the foreign keys still name existing rows, else the flush fails
\* and is rolled back
EmpiUpdate(row, k, v) ==
  LET new == [row EXCEPT !.cols[k] = v]
      after == (db \ {row}) \cup {new}
  IN /\ v # row.cols[k]
     /\ IF /\ EmpiFkIntegrity(after)
           /\ k \in IdentityGraph[row.t].unique =>
                \A r \in db \ {row} : r.t = row.t => r.cols[k] # v
        THEN db' = after /\ dbLast' = <<"update", EmpiRowId(row), "ok", {k}>>
        ELSE db' = db /\ dbLast' = <<"update", EmpiRowId(row), "IntegrityError", {k}>>
     /\ UNCHANGED scope

SpecEmpiInit ==
  /\ EmpiInit
  /\ mapped = [m \in ModuleNames |-> Len(Modules[m])]
  /\ cpc = "idle" /\ ci = 0 /\ rot = 0 /\ kj = 0 /\ failure = <<>>
  /\ ent = <<>> /\ focus = <<>> /\ objs = <<>> /\ last = <<>>
  /\ catalog = {} /\ catLast = <<>>

SpecEmpiNext ==
  \/ \E t \in DOMAIN IdentityGraph :
       \E cols \in [IdentityGraph[t].columns -> EmpiIds] :
         EmpiInsert(t, cols) /\ UNCHANGED <<importVars, compatVars, aliasVars, catVars>>
  \/ \E row \in db :
       EmpiDelete(row) /\ UNCHANGED <<importVars, compatVars, aliasVars, catVars>>
  \/ \E row \in {r \in db : r.t \in GraphTables} :
       \E k \in DOMAIN row.cols \ IdentityGraph[row.t].primary_key :
         \E v \in EmpiIds :
           EmpiUpdate(row, k, v) /\ UNCHANGED <<importVars, compatVars, aliasVars, catVars>>

SpecEmpi == SpecEmpiInit /\ [][SpecEmpiNext]_vars

\* C29: deleting a Person deletes its LinkRecords, WorkItems and PidXRef
\* entries, deleting a MasterRecord its LinkRecords and WorkItems: the delete
\* goes through, the row is gone, and afterwards no LinkRecord or WorkItem
\* refers to a Person or MasterRecord that is not there and no PidXRef to a
\* Person that is not there.
C29_IdentityGraphCascade ==
  (dbLast # <<>> /\ dbLast[1] = "delete" /\ dbLast[2][1] \in {"person", "masterrecord"}) =>
    /\ dbLast[3] = "ok"
    /\ dbLast[2] \in dbLast[4]
    /\ \A r \in db : EmpiRowId(r) # dbLast[2]
    /\ \A r \in db :
         /\ r.t \in {"linkrecord", "workitem"} =>
              /\ \E p \in db : p.t = "person" /\ p.cols.id = r.cols.personid
              /\ \E m \in db : m.t = "masterrecord" /\ m.cols.id = r.cols.masterid
         /\ r.t = "pidxref" =>
              \E p \in db : p.t = "person" /\ p.cols.localid = r.cols.pid

\* a Person has been deleted together with a LinkRecord and a PidXRef entry
C29_Witness ==
  /\ dbLast # <<>> /\ dbLast[1] = "delete" /\ dbLast[2][1] = "person"
  /\ dbLast[3] = "ok"
  /\ \E x \in dbLast[4] : x[1] = "linkrecord"
  /\ \E x \in dbLast[4] : x[1] = "pidxref"

\* C30: a delete or a modification of a Person, MasterRecord, LinkRecord or
\* WorkItem deletes no Audit row and leaves personid and masterid of every
\* Audit row as they were.
C30_AuditAppendOnly ==
  [][(dbLast' # <<>> /\ dbLast'[1] \in {"delete", "update"} /\ dbLast'[2][1] \in GraphTables) =>
       {r \in db' : r.t = "audit"} = {r \in db : r.t = "audit"}]_vars

\* a Person that an Audit row names has been deleted, and the Audit row is
\* still there
C30_Witness ==
  /\ dbLast # <<>> /\ dbLast[1] = "delete" /\ dbLast[2][1] = "person"
  /\ dbLast[3] = "ok"
  /\ \E a \in db : a.t = "audit" /\ a.cols.personid = dbLast[2][2]
====
